---- MODULE Spec2Model ----
(***************************************************************************)
(* FocusAI monitoring session engine (App component, services).            *)
(*                                                                         *)
(* The App component is a single-threaded React component.  Its state      *)
(* (useState) and its mutable references (useRef) are the variables; each  *)
(* event handler, timer callback and promise continuation is one action.   *)
(* A state update is committed together with the effects that depend on    *)
(* it (the ref-sync effect, the start/stop effect and the pomodoro         *)
(* effect), in declaration order, cleanups first.                          *)
(*                                                                         *)
(* Closures: captureAndAnalyze is memoised on [isMonitoring,               *)
(* monitorIntervalMs, voiceAlertThreshold]; a pending timer or an          *)
(* in-flight analyze call keeps the interval and the threshold of the      *)
(* render that created it.                                                 *)
(*                                                                         *)
(* Timers: window.setTimeout delays are observed in event.delays and a     *)
(* pending timer may fire at any later step; Date.now() is the variable    *)
(* now, advanced by the action Advance.                                    *)
(***************************************************************************)
EXTENDS Integers, Sequences, FiniteSets, Bags, TLC

VARIABLES
  activeTab,               \* 'home' | 'settings' : the camera and canvas are mounted on 'home' only
  isMonitoring,            \* useState(false)
  isMonitoringRef,         \* useRef(isMonitoring)
  monitorIntervalMs,       \* useState(DEFAULT_MONITOR_INTERVAL_MS)
  voiceAlertThreshold,     \* useState(DEFAULT_VOICE_ALERT_THRESHOLD)
  timeoutRef,              \* "null" or "set" (a timer id, pending or already spent)
  timers,                  \* bag of pending window.setTimeout(captureAndAnalyze, delay)
  inflight,                \* bag of analyzeStudentState calls awaiting settlement
  latestResult,            \* useState<AnalysisResult | null>(null): <<>> or <<result>>
  history,                 \* useState<AnalysisResult[]>([])
  error,                   \* useState<string | null>(null)
  consecutiveBadCountRef,  \* useRef(0)
  lastVoiceAlertTimeRef,   \* useRef(0)
  now,                     \* Date.now()
  feedLog,                 \* observation: what handleVoiceAlert did with each result it was given
  workDurationMin,         \* useState(DEFAULT_POMODORO_WORK_MIN)
  breakDurationMin,        \* useState(DEFAULT_POMODORO_BREAK_MIN)
  elapsedSeconds,          \* useState(0)
  isOnBreak,               \* useState(false)
  pomodoroTimer,           \* TRUE while the window.setInterval of the pomodoro effect exists
  pomodoroTicks,           \* observation: interval callbacks run since the counter was last zeroed
  isGeneratingReport,      \* useState(false)
  summaries,               \* bag of generateSessionSummary calls awaiting settlement
  totalCoins,              \* useState(0), persisted under COIN_STORAGE_KEY
  savedSessions,           \* useState<StoredSession[]>([]), persisted under SESSION_STORAGE_KEY
  showReport,              \* useState(false)
  reportSummary,           \* useState<SessionSummary | null>(null): <<>> or <<summary>>
  lastEarnedCoins,         \* useState<number | null>(null): <<>> or <<coins>>
  rewardedSamples,         \* observation: leading samples of history already turned into coins
  purchasedItems,          \* useState<Set<string>>, persisted under PURCHASED_ITEMS_KEY
  storeCoins,              \* localStorage[COIN_STORAGE_KEY]: <<>> or <<raw>>
  storeSessions,           \* localStorage[SESSION_STORAGE_KEY]: <<>> or <<raw>>
  storePurchased,          \* localStorage[PURCHASED_ITEMS_KEY]: <<>> or <<raw>>
  calc,                    \* the summary arithmetic applied to a history: <<>> or <<application>>
  activeVoiceTheme,        \* useState<VoiceThemeId>('gentle'), persisted under ACTIVE_VOICE_KEY
  storeVoice,              \* localStorage[ACTIVE_VOICE_KEY]: <<>> or <<raw>>
  narrations,              \* the generateSpeech calls not settled yet, as a set of (text, voice)
  event                    \* observation of the last step taken

vars == <<activeTab, isMonitoring, isMonitoringRef, monitorIntervalMs, voiceAlertThreshold,
          timeoutRef, timers, inflight, latestResult, history, error,
          consecutiveBadCountRef, lastVoiceAlertTimeRef, now, feedLog,
          workDurationMin, breakDurationMin, elapsedSeconds, isOnBreak, pomodoroTimer,
          pomodoroTicks,
          isGeneratingReport, summaries, totalCoins, savedSessions,
          showReport, reportSummary, lastEarnedCoins, rewardedSamples,
          purchasedItems, storeCoins, storeSessions, storePurchased, calc,
          activeVoiceTheme, storeVoice, narrations, event>>

loopVars == <<timeoutRef, timers, inflight>>
sampleVars == <<latestResult, history, error>>
alertVars == <<consecutiveBadCountRef, lastVoiceAlertTimeRef, feedLog>>
pomodoroVars == <<elapsedSeconds, isOnBreak, pomodoroTimer, pomodoroTicks>>
pomodoroSettings == <<workDurationMin, breakDurationMin>>
reportVars == <<isGeneratingReport, summaries, totalCoins, savedSessions, showReport,
               reportSummary, lastEarnedCoins, rewardedSamples>>
shopVars == <<purchasedItems, storePurchased, calc>>
ledgerStore == <<storeCoins, storeSessions>>
voiceVars == <<activeVoiceTheme, storeVoice, narrations>>

(***************************************************************************)
(* Program constants                                                       *)
(***************************************************************************)
DEFAULT_MONITOR_INTERVAL_MS == 5000
DEFAULT_VOICE_ALERT_THRESHOLD == 2
VOICE_COOLDOWN_MS == 30000
DEFAULT_POMODORO_WORK_MIN == 25
DEFAULT_POMODORO_BREAK_MIN == 5
NOT_READY_RETRY_MS == 1000
BACKOFF_MS == 60000
BAD_SCORE_BELOW == 60
SAVED_SESSIONS_MAX == 50
SECONDS_PER_MINUTE == 60

NULL == "null"

(***************************************************************************)
(* Bounds of the model                                                     *)
(***************************************************************************)
MaxChains == 2       \* pending timers plus in-flight analyze calls
MaxHistory == 2      \* samples delivered to the scheduler
MaxFeed == 4         \* samples delivered to the debouncer
MaxClock == 3        \* steps of the clock
TimeStep == 15000    \* milliseconds per step of the clock
MaxCloses == 1       \* session closes that reach the summarizer, scheduler specification
MaxReports == 2      \* session closes that reach the summarizer, close specification
MaxLedgerSamples == 1 \* samples and chains of a session, ledger specification
MaxReloads == 1       \* page loads after the first, ledger specification
MaxLoopHistory == 1   \* samples of a session, fair scheduler specification
MaxRuleFeed == 3      \* samples delivered to the debouncer, alert rule specification
MaxFrameSeconds == 1  \* pomodoro seconds counted, frame specification
MaxFrameNarrations == 1 \* narrations pending when a preview is asked for, frame specification
HistoryLengths == {1, 2, 3, 300}        \* samples of a summarized history; 300 at 5 s are 25 minutes
SampleScores == {0, 7, 40, 80, 87, 100} \* of the scores 0..100

MonitorIntervals == {3000, 5000, 10000}        \* of the selectable {3000, 5000, 10000}
AlertThresholds == {1, 2, 3}
WorkMinutes == {10, 25}                 \* of the accepted 10..60
BreakMinutes == {3, 5}                  \* of the accepted 3..20
Tabs == {"home", "settings"}              \* help and shop mount no camera and no control modelled here

(***************************************************************************)
(* Data                                                                    *)
(***************************************************************************)
PostureType == {"GOOD", "SLOUCHING", "TOO_CLOSE", "TOO_FAR", "UNKNOWN"}

\* What analyzeStudentState resolves to (an AnalysisResult without timestamp).
GoodOutput ==
  [concentrationScore |-> 85, isLookingAtScreen |-> TRUE, posture |-> "GOOD",
   hasElectronicDevice |-> FALSE, detectedDistractions |-> <<>>, feedback |-> "keep going"]

BadOutput ==
  [concentrationScore |-> 40, isLookingAtScreen |-> FALSE, posture |-> "SLOUCHING",
   hasElectronicDevice |-> TRUE, detectedDistractions |-> <<"Phone">>, feedback |-> "put the phone away"]

AnalysisOutputs == {GoodOutput, BadOutput}

\* Results at the edges of the bad-state rule: the lowest good score, and a result for each
\* of the three reasons alone.
RuleOutput(score, posture, device) ==
  [concentrationScore |-> score, isLookingAtScreen |-> TRUE, posture |-> posture,
   hasElectronicDevice |-> device, detectedDistractions |-> <<>>, feedback |-> "sit up"]

RuleOutputs ==
  {RuleOutput(60, "GOOD", FALSE), RuleOutput(59, "GOOD", FALSE),
   RuleOutput(85, "TOO_CLOSE", FALSE), RuleOutput(85, "GOOD", TRUE)}

\* What analyzeStudentState rejects with: the substrings the classifier looks for.
\* '429' stands for 429 / quota / RESOURCE_EXHAUSTED, '404' for 404 / NOT_FOUND,
\* 'API Key' for API Key / API_KEY.
ErrorPatterns == {"429", "404", "API Key"}

AnalysisErrors == SUBSET ErrorPatterns

Stamp(output, t) ==
  [timestamp |-> t,
   concentrationScore |-> output.concentrationScore,
   isLookingAtScreen |-> output.isLookingAtScreen,
   posture |-> output.posture,
   hasElectronicDevice |-> output.hasElectronicDevice,
   detectedDistractions |-> output.detectedDistractions,
   feedback |-> output.feedback]

\* The memoised captureAndAnalyze of one render.
Closure(interval, threshold, voice) ==
  [interval |-> interval, threshold |-> threshold, voice |-> voice]

CurrentClosure == Closure(monitorIntervalMs, voiceAlertThreshold, activeVoiceTheme)

\* An in-flight call; sawStop records that the session was deactivated while it was in flight.
Call(cl) == [closure |-> cl, sawStop |-> FALSE]

\* A pending window.setTimeout: the callback, the delay it was set with, and whether
\* timeoutRef holds its id.
Timer(cl, held, delay) == [closure |-> cl, inRef |-> held, delay |-> delay]

One(x) == SetToBag({x})

Chains == BagCardinality(timers) + BagCardinality(inflight)

(***************************************************************************)
(* Timers and the timeout reference                                        *)
(***************************************************************************)
Loop == [timeoutRef |-> timeoutRef, timers |-> timers, inflight |-> inflight]

HeldTimers(T) == {t \in BagToSet(T) : t.inRef}

RemoveHeld(T) == [t \in {x \in BagToSet(T) : ~x.inRef} |-> T[t]]

\* The timer whose id timeoutRef holds loses its only reference.
Release(T) ==
  IF HeldTimers(T) = {} THEN T
  ELSE LET t == CHOOSE x \in HeldTimers(T) : TRUE
       IN RemoveHeld(T) (+) One([t EXCEPT !.inRef = FALSE])

\* clearTimeout(timeoutRef.current)
ClearTimeout(L) == [L EXCEPT !.timers = RemoveHeld(@)]

\* if (timeoutRef.current) { clearTimeout(timeoutRef.current); timeoutRef.current = null; }
ClearAndNull(L) ==
  IF L.timeoutRef # NULL THEN [ClearTimeout(L) EXCEPT !.timeoutRef = NULL] ELSE L

\* timeoutRef.current = window.setTimeout(captureAndAnalyze, delay); the delay is observed
\* in event.delays when the timer is set, the timer itself may fire at any later step.
SetTimeout(L, cl, delay) ==
  [L EXCEPT !.timers = Release(@) (+) One(Timer(cl, TRUE, delay)), !.timeoutRef = "set"]

\* videoRef.current and canvasRef.current are mounted on the home tab only.
CaptureReady(tab) == tab = "home"

\* A tick that gives up when the capture source is not ready.
captureAndAnalyzeGivesUp(L, cl, monitoringRef, tab) ==
  IF ~monitoringRef \/ ~CaptureReady(tab) THEN L
  ELSE [L EXCEPT !.inflight = @ (+) One(Call(cl))]

\* A tick that does not look at isMonitoringRef.
captureAndAnalyzeUnguarded(L, cl, monitoringRef, tab) ==
  IF ~CaptureReady(tab) THEN SetTimeout(L, cl, NOT_READY_RETRY_MS)
  ELSE [L EXCEPT !.inflight = @ (+) One(Call(cl))]

\* A tick that requests the analysis without looking at the capture source.
captureAndAnalyzeUnready(L, cl, monitoringRef, tab) ==
  IF ~monitoringRef THEN L
  ELSE [L EXCEPT !.inflight = @ (+) One(Call(cl))]

\* captureAndAnalyze up to its await: the guards, the capture and the analyze request.
\* The one canvas is only ever asked for its '2d' context, which it then has (line 167).
captureAndAnalyze(L, cl, monitoringRef, tab) ==
  IF ~monitoringRef THEN L
  ELSE IF ~CaptureReady(tab) THEN SetTimeout(L, cl, NOT_READY_RETRY_MS)
  ELSE [L EXCEPT !.inflight = @ (+) One(Call(cl))]

\* The cleanup of the start/stop effect.
MonitorEffectCleanup(L) == IF L.timeoutRef # NULL THEN ClearTimeout(L) ELSE L

\* The start/stop effect, run when isMonitoring or captureAndAnalyze changed.
MonitorEffect(L, monitoring, cl, tab) ==
  IF monitoring THEN captureAndAnalyze(MonitorEffectCleanup(L), cl, monitoring, tab)
  ELSE ClearAndNull(MonitorEffectCleanup(L))

\* Observation: the calls in flight when the session is deactivated.
MarkStopped(F) ==
  LET S == BagToSet(F)
      marked(c) == [c EXCEPT !.sawStop = TRUE]
  IN [m \in {marked(c) : c \in S} |->
        (IF m \in S THEN F[m] ELSE 0) +
        (IF [m EXCEPT !.sawStop = FALSE] \in S THEN F[[m EXCEPT !.sawStop = FALSE]] ELSE 0)]

SetLoop(L) ==
  /\ timeoutRef' = L.timeoutRef
  /\ timers' = L.timers
  /\ inflight' = L.inflight

\* A deactivation whose start/stop effect leaves the pomodoro state alone.
CommitInactiveKeepsPomodoro(L) ==
  /\ isMonitoring' = FALSE
  /\ isMonitoringRef' = FALSE
  /\ SetLoop([MonitorEffect(L, FALSE, CurrentClosure, activeTab) EXCEPT !.inflight = MarkStopped(@)])
  /\ consecutiveBadCountRef' = 0
  /\ pomodoroTimer' = FALSE
  /\ UNCHANGED <<elapsedSeconds, isOnBreak, pomodoroTicks>>

\* The commit of isMonitoring = FALSE: ref sync, start/stop effect, pomodoro cleanup.
CommitInactive(L) ==
  /\ isMonitoring' = FALSE
  /\ isMonitoringRef' = FALSE
  /\ SetLoop([MonitorEffect(L, FALSE, CurrentClosure, activeTab) EXCEPT !.inflight = MarkStopped(@)])
  /\ consecutiveBadCountRef' = 0
  /\ elapsedSeconds' = 0
  /\ isOnBreak' = FALSE
  /\ pomodoroTimer' = FALSE
  /\ pomodoroTicks' = 0

\* The delays captureAndAnalyze hands to window.setTimeout before its await.
EntryDelay(monitoringRef, tab) ==
  IF monitoringRef /\ ~CaptureReady(tab) THEN <<NOT_READY_RETRY_MS>> ELSE <<>>

\* op: the step taken; sawStop: the settled call was in flight at a deactivation;
\* spoke: the text handed to speakText; delays: the delays handed to window.setTimeout.
\* failure: the rejection of the settled call; item: the shop item of a purchase request;
\* voice: the style handed to generateSpeech with the text.
Ev(op) ==
  [op |-> op, sawStop |-> FALSE, spoke |-> NULL, delays |-> <<>>, failure |-> {}, item |-> NULL,
   voice |-> NULL]

(***************************************************************************)
(* AlertDebouncer                                                          *)
(***************************************************************************)
\* A classification that counts the score BAD_SCORE_BELOW itself as bad.
isBadStateUpTo(result) ==
  \/ result.concentrationScore <= BAD_SCORE_BELOW
  \/ result.posture # "GOOD"
  \/ result.hasElectronicDevice

isBadState(result) ==
  \/ result.concentrationScore < BAD_SCORE_BELOW
  \/ result.posture # "GOOD"
  \/ result.hasElectronicDevice

\* A debouncer that speaks on the first bad result whatever the threshold.
handleVoiceAlertOnFirstBad(result, threshold, count, last, t) ==
  LET counted == IF isBadState(result) THEN count + 1 ELSE 0
      timeSinceLastAlert == t - last
      fire == counted >= 1 /\ timeSinceLastAlert > VOICE_COOLDOWN_MS
  IN [count |-> IF fire THEN 0 ELSE counted,
      last |-> IF fire THEN t ELSE last,
      fired |-> fire]

\* A debouncer that keeps counting through a firing.
handleVoiceAlertKeepsCount(result, threshold, count, last, t) ==
  LET counted == IF isBadState(result) THEN count + 1 ELSE 0
      timeSinceLastAlert == t - last
      fire == counted >= threshold /\ timeSinceLastAlert > VOICE_COOLDOWN_MS
  IN [count |-> counted,
      last |-> IF fire THEN t ELSE last,
      fired |-> fire]

\* A debouncer whose cooldown ends at exactly VOICE_COOLDOWN_MS.
handleVoiceAlertAtCooldown(result, threshold, count, last, t) ==
  LET counted == IF isBadState(result) THEN count + 1 ELSE 0
      timeSinceLastAlert == t - last
      fire == counted >= threshold /\ timeSinceLastAlert >= VOICE_COOLDOWN_MS
  IN [count |-> IF fire THEN 0 ELSE counted,
      last |-> IF fire THEN t ELSE last,
      fired |-> fire]

\* handleVoiceAlert: the new counter, the new last-alert instant, and whether it spoke.
handleVoiceAlert(result, threshold, count, last, t) ==
  LET counted == IF isBadState(result) THEN count + 1 ELSE 0
      timeSinceLastAlert == t - last
      fire == counted >= threshold /\ timeSinceLastAlert > VOICE_COOLDOWN_MS
  IN [count |-> IF fire THEN 0 ELSE counted,
      last |-> IF fire THEN t ELSE last,
      fired |-> fire]

\* A narration that speaks only for an active session or a counted bad state.
speakTextUnforced(force, monitoring, count) == monitoring \/ count # 0

\* speakText, line 111: whether the narration call is issued.
speakText(force, monitoring, count) == ~(~force /\ ~monitoring /\ count = 0)

VoicePreviews == {"gentle", "strict"}

VoiceThemes == {"gentle", "strict", "energetic", "calm", "motivational"}

\* A generateSpeech(text, style) call that has not settled.
Narration(text, voice) == [text |-> text, voice |-> voice]

\* speakText(text, force, voice) up to its await, given the isMonitoring of its render.
Speak(N, force, monitoring, count, text, voice) ==
  IF speakText(force, monitoring, count) THEN N \cup {Narration(text, voice)} ELSE N

(***************************************************************************)
(* Init                                                                    *)
(***************************************************************************)
\* Date.now() when the component mounts: later than one cooldown after the epoch.
StartTime == VOICE_COOLDOWN_MS + TimeStep

\* SHOP_THEMES and SHOP_VOICES: the price of each item.
ShopPrice ==
  [id \in {"default", "eye-care", "gentle", "strict"} |-> 0] @@
  ("dark" :> 200) @@ ("pink" :> 300) @@ ("ocean" :> 250) @@ ("forest" :> 280) @@
  ("energetic" :> 150) @@ ("calm" :> 180) @@ ("motivational" :> 200)

ShopItems == DOMAIN ShopPrice

\* The items the load effect unlocks whatever the store holds.
FreeDefaults == {"default", "eye-care", "gentle", "strict"}

\* A value of localStorage as the load effect reads it.  kind "array": JSON.parse yields an
\* array, val; "json": it yields something else; "malformed": it throws.  For the coin key
\* kind "number": Number(raw) is val; "text": it is NaN.
Raw(kind, val) == [kind |-> kind, val |-> val]

Absent == <<>>

Stored(kind, val) == <<Raw(kind, val)>>

\* JSON.parse of the session log throws: the catch of the load effect skips the rest of it.
LoadThrowsAtSessions(ss) == ss # Absent /\ ss[1].kind = "malformed"

\* Lines 408-414.
LoadedSessions(ss) == IF ss # Absent /\ ss[1].kind = "array" THEN ss[1].val ELSE <<>>

\* A load that takes whatever number the store holds.
LoadedCoinsUnchecked(ss, sc) ==
  IF LoadThrowsAtSessions(ss) THEN 0
  ELSE IF sc # Absent /\ sc[1].kind = "number" THEN sc[1].val
  ELSE 0

\* Lines 415-421.
LoadedCoins(ss, sc) ==
  IF LoadThrowsAtSessions(ss) THEN 0
  ELSE IF sc # Absent /\ sc[1].kind = "number" /\ sc[1].val >= 0 THEN sc[1].val
  ELSE 0

\* Lines 422-440; useState(new Set()) of line 76 when the effect does not reach a setter.
LoadedPurchased(ss, sp) ==
  IF LoadThrowsAtSessions(ss) THEN {}
  ELSE IF sp = Absent THEN FreeDefaults
  ELSE IF sp[1].kind = "malformed" THEN {}
  ELSE IF sp[1].kind = "array" THEN sp[1].val \cup FreeDefaults
  ELSE FreeDefaults

\* Lines 445-451, reached when neither JSON.parse before them threw; useState('gentle') of
\* line 78 otherwise.
LoadedVoice(ss, sp, sv) ==
  IF LoadThrowsAtSessions(ss) \/ (sp # Absent /\ sp[1].kind = "malformed") THEN "gentle"
  ELSE IF sv # Absent /\ sv[1].kind = "text" /\ sv[1].val \in VoiceThemes THEN sv[1].val
  ELSE "gentle"

\* The state after the first render and its load effect over the store (sc, ss, sp), with the
\* settings the user chose on the settings tab before the first session (they are plain
\* useState values, changed there while idle).
MountedFrom(threshold, workMin, breakMin, sc, ss, sp) ==
  /\ activeTab = "home"
  /\ isMonitoring = FALSE
  /\ isMonitoringRef = FALSE
  /\ monitorIntervalMs = DEFAULT_MONITOR_INTERVAL_MS
  /\ voiceAlertThreshold = threshold
  /\ timeoutRef = NULL
  /\ timers = EmptyBag
  /\ inflight = EmptyBag
  /\ latestResult = <<>>
  /\ history = <<>>
  /\ error = NULL
  /\ consecutiveBadCountRef = 0
  /\ lastVoiceAlertTimeRef = 0
  /\ now = StartTime
  /\ feedLog = <<>>
  /\ workDurationMin = workMin
  /\ breakDurationMin = breakMin
  /\ elapsedSeconds = 0
  /\ isOnBreak = FALSE
  /\ pomodoroTimer = FALSE
  /\ pomodoroTicks = 0
  /\ isGeneratingReport = FALSE
  /\ summaries = EmptyBag
  /\ totalCoins = LoadedCoins(ss, sc)
  /\ savedSessions = LoadedSessions(ss)
  /\ showReport = FALSE
  /\ reportSummary = <<>>
  /\ lastEarnedCoins = <<>>
  /\ rewardedSamples = 0
  /\ purchasedItems = LoadedPurchased(ss, sp)
  /\ storeCoins = sc
  /\ storeSessions = ss
  /\ storePurchased = sp
  /\ calc = <<>>
  /\ activeVoiceTheme = LoadedVoice(ss, sp, Absent)
  /\ storeVoice = Absent
  /\ narrations = {}
  /\ event = Ev("init")

\* The state after the first render over an empty store.
Mounted(threshold, workMin, breakMin) ==
  MountedFrom(threshold, workMin, breakMin, Absent, Absent, Absent)

\* The state after construction: every setting at its default.
Init ==
  Mounted(DEFAULT_VOICE_ALERT_THRESHOLD, DEFAULT_POMODORO_WORK_MIN, DEFAULT_POMODORO_BREAK_MIN)

\* The component state of a page loaded again over the store (sc, ss, sp): MountedFrom with
\* the default settings, as the next state.
Remount(sc, ss, sp) ==
  /\ activeTab' = "home"
  /\ isMonitoring' = FALSE
  /\ isMonitoringRef' = FALSE
  /\ monitorIntervalMs' = DEFAULT_MONITOR_INTERVAL_MS
  /\ voiceAlertThreshold' = DEFAULT_VOICE_ALERT_THRESHOLD
  /\ timeoutRef' = NULL
  /\ timers' = EmptyBag
  /\ inflight' = EmptyBag
  /\ latestResult' = <<>>
  /\ history' = <<>>
  /\ error' = NULL
  /\ consecutiveBadCountRef' = 0
  /\ lastVoiceAlertTimeRef' = 0
  /\ feedLog' = <<>>
  /\ workDurationMin' = DEFAULT_POMODORO_WORK_MIN
  /\ breakDurationMin' = DEFAULT_POMODORO_BREAK_MIN
  /\ elapsedSeconds' = 0
  /\ isOnBreak' = FALSE
  /\ pomodoroTimer' = FALSE
  /\ pomodoroTicks' = 0
  /\ isGeneratingReport' = FALSE
  /\ summaries' = EmptyBag
  /\ totalCoins' = LoadedCoins(ss, sc)
  /\ savedSessions' = LoadedSessions(ss)
  /\ showReport' = FALSE
  /\ reportSummary' = <<>>
  /\ lastEarnedCoins' = <<>>
  /\ rewardedSamples' = 0
  /\ purchasedItems' = LoadedPurchased(ss, sp)
  /\ calc' = <<>>
  /\ activeVoiceTheme' = LoadedVoice(ss, sp, storeVoice)
  /\ narrations' = {}

(***************************************************************************)
(* Capture scheduler                                                       *)
(***************************************************************************)
\* onTabChange={setActiveTab}
SetActiveTab(tab) ==
  /\ UNCHANGED <<shopVars, ledgerStore, voiceVars>>
  /\ tab # activeTab
  /\ activeTab' = tab
  /\ event' = Ev("tab")
  /\ UNCHANGED <<isMonitoring, isMonitoringRef, monitorIntervalMs, voiceAlertThreshold,
                 loopVars, sampleVars, alertVars, now, pomodoroVars, pomodoroSettings,
                 reportVars>>

\* handleToggleMonitoring, from Idle: the start button.
StartMonitoring ==
  /\ UNCHANGED <<shopVars, ledgerStore, voiceVars>>
  /\ activeTab = "home"
  /\ ~isGeneratingReport
  /\ ~isMonitoring
  /\ isMonitoring' = TRUE
  /\ isMonitoringRef' = TRUE
  /\ SetLoop(MonitorEffect(Loop, TRUE, CurrentClosure, activeTab))
  /\ pomodoroTimer' = TRUE
  /\ event' = [Ev("start") EXCEPT !.delays = EntryDelay(TRUE, activeTab)]
  /\ UNCHANGED <<activeTab, monitorIntervalMs, voiceAlertThreshold, sampleVars, alertVars,
                 now, elapsedSeconds, isOnBreak, pomodoroTicks, pomodoroSettings, reportVars>>

\* handleToggleMonitoring, from Active: the pause button.
PauseMonitoring ==
  /\ UNCHANGED <<shopVars, ledgerStore, voiceVars>>
  /\ activeTab = "home"
  /\ ~isGeneratingReport
  /\ isMonitoring
  /\ CommitInactive(ClearAndNull(Loop))
  /\ event' = Ev("pause")
  /\ UNCHANGED <<activeTab, monitorIntervalMs, voiceAlertThreshold, sampleVars,
                 lastVoiceAlertTimeRef, feedLog, now, pomodoroSettings,
                 reportVars>>

\* A pending window.setTimeout fires and runs the captureAndAnalyze it was given.
TimerFires(t) ==
  /\ UNCHANGED <<shopVars, ledgerStore, voiceVars>>
  /\ BagIn(t, timers)
  /\ SetLoop(captureAndAnalyze([Loop EXCEPT !.timers = @ (-) One(t)], t.closure,
                               isMonitoringRef, activeTab))
  /\ event' = [Ev("tick") EXCEPT !.delays = EntryDelay(isMonitoringRef, activeTab)]
  /\ UNCHANGED <<activeTab, isMonitoring, isMonitoringRef, monitorIntervalMs,
                 voiceAlertThreshold, sampleVars, alertVars, now, pomodoroVars,
                 pomodoroSettings, reportVars>>

\* The await of analyzeStudentState resolves: lines 186-200.  handleVoiceAlert and its
\* speakText are those of the render that made the callback: a render of an active session,
\* with the voice theme of that render; speakText runs before the counter is reset.
AnalyzeSucceeds(c, output) ==
  /\ UNCHANGED <<shopVars, ledgerStore, activeVoiceTheme, storeVoice>>
  /\ BagIn(c, inflight)
  /\ IF ~isMonitoringRef
       THEN /\ inflight' = inflight (-) One(c)
            /\ event' = [Ev("success") EXCEPT !.sawStop = c.sawStop]
            /\ UNCHANGED <<timeoutRef, timers, sampleVars, alertVars, narrations>>
       ELSE LET timestampedResult == Stamp(output, now)
                alert == handleVoiceAlert(timestampedResult, c.closure.threshold,
                                          consecutiveBadCountRef, lastVoiceAlertTimeRef, now)
            IN /\ latestResult' = <<timestampedResult>>
               /\ history' = Append(history, timestampedResult)
               /\ error' = NULL
               /\ consecutiveBadCountRef' = alert.count
               /\ lastVoiceAlertTimeRef' = alert.last
               /\ feedLog' = Append(feedLog,
                    [bad |-> isBadState(timestampedResult), fired |-> alert.fired, at |-> now,
                     threshold |-> c.closure.threshold,
                     before |-> consecutiveBadCountRef, after |-> alert.count])
               /\ narrations' =
                    IF alert.fired
                      THEN Speak(narrations, FALSE, TRUE, consecutiveBadCountRef + 1,
                                 timestampedResult.feedback, c.closure.voice)
                      ELSE narrations
               /\ event' = [Ev("success") EXCEPT !.sawStop = c.sawStop,
                            !.spoke = IF alert.fired THEN timestampedResult.feedback ELSE NULL,
                            !.voice = IF alert.fired THEN c.closure.voice ELSE NULL,
                            !.delays = <<c.closure.interval>>]
               /\ SetLoop(SetTimeout([Loop EXCEPT !.inflight = @ (-) One(c)], c.closure,
                                      c.closure.interval))
  /\ UNCHANGED <<activeTab, isMonitoring, isMonitoringRef, monitorIntervalMs,
                 voiceAlertThreshold, now, pomodoroVars, pomodoroSettings, reportVars>>

\* A classification without the configuration branch.
ClassifyWithoutConfig(err) ==
  IF "429" \in err THEN "quota"
  ELSE IF "404" \in err THEN "notFound"
  ELSE "network"

\* The classification of lines 208-245: the reaction chosen for a rejection.
Classify(err) ==
  IF "429" \in err THEN "quota"
  ELSE IF "404" \in err THEN "notFound"
  ELSE IF "API Key" \in err THEN "config"
  ELSE "network"

\* nextRetryTime of lines 209, 234, 237.
NextRetryTime(kind, interval) ==
  IF kind \in {"quota", "notFound"} THEN BACKOFF_MS ELSE interval

\* The await of analyzeStudentState rejects with a non-fatal error: lines 202-251.
AnalyzeFails(c, err) ==
  /\ UNCHANGED <<shopVars, ledgerStore, voiceVars>>
  /\ BagIn(c, inflight)
  /\ isMonitoringRef => Classify(err) # "config"
  /\ IF ~isMonitoringRef
       THEN /\ inflight' = inflight (-) One(c)
            /\ event' = [Ev("failure") EXCEPT !.sawStop = c.sawStop,
                         !.failure = err]
            /\ UNCHANGED <<timeoutRef, timers, error>>
       ELSE /\ error' = Classify(err)
            /\ event' = [Ev("failure") EXCEPT !.sawStop = c.sawStop,
                         !.delays = <<NextRetryTime(Classify(err), c.closure.interval)>>,
                         !.failure = err]
            /\ SetLoop(SetTimeout([Loop EXCEPT !.inflight = @ (-) One(c)], c.closure,
                                   NextRetryTime(Classify(err), c.closure.interval)))
  /\ UNCHANGED <<activeTab, isMonitoring, isMonitoringRef, monitorIntervalMs,
                 voiceAlertThreshold, latestResult, history, alertVars, now, pomodoroVars,
                 pomodoroSettings, reportVars>>

\* The await rejects with a configuration error while the session is active: lines 238-242.
AnalyzeFailsFatally(c, err) ==
  /\ UNCHANGED <<shopVars, ledgerStore, voiceVars>>
  /\ BagIn(c, inflight)
  /\ isMonitoringRef
  /\ Classify(err) = "config"
  /\ event' = [Ev("fatal") EXCEPT !.sawStop = c.sawStop,
               !.failure = err]
  /\ error' = Classify(err)
  /\ CommitInactive([Loop EXCEPT !.inflight = @ (-) One(c)])
  /\ UNCHANGED <<activeTab, monitorIntervalMs, voiceAlertThreshold, latestResult, history,
                 lastVoiceAlertTimeRef, feedLog, now, pomodoroSettings,
                 reportVars>>

\* The settings selects: a changed value re-creates captureAndAnalyze, which re-runs the
\* start/stop effect (cleanup first).
ApplyLoopSetting(interval, threshold) ==
  /\ UNCHANGED <<shopVars, ledgerStore, voiceVars>>
  /\ activeTab = "settings"
  /\ <<interval, threshold>> # <<monitorIntervalMs, voiceAlertThreshold>>
  /\ monitorIntervalMs' = interval
  /\ voiceAlertThreshold' = threshold
  /\ SetLoop(MonitorEffect(Loop, isMonitoring, Closure(interval, threshold, activeVoiceTheme),
                           activeTab))
  /\ IF isMonitoring
       THEN UNCHANGED <<consecutiveBadCountRef, elapsedSeconds, isOnBreak, pomodoroTicks>>
       ELSE /\ consecutiveBadCountRef' = 0
            /\ elapsedSeconds' = 0
            /\ isOnBreak' = FALSE
            /\ pomodoroTicks' = 0
  /\ UNCHANGED <<activeTab, isMonitoring, isMonitoringRef, sampleVars, lastVoiceAlertTimeRef,
                 feedLog, now, pomodoroTimer, pomodoroSettings, reportVars>>

\* onChange={(e) => setMonitorIntervalMs(Number(e.target.value))}
SetMonitorIntervalMs(v) ==
  /\ ApplyLoopSetting(v, voiceAlertThreshold)
  /\ event' = [Ev("interval") EXCEPT !.delays = EntryDelay(isMonitoring, activeTab)]

\* onChange={(e) => setVoiceAlertThreshold(Number(e.target.value))}
SetVoiceAlertThreshold(v) ==
  /\ ApplyLoopSetting(monitorIntervalMs, v)
  /\ event' = [Ev("threshold") EXCEPT !.delays = EntryDelay(isMonitoring, activeTab)]

\* A clear-history button that is enabled while monitoring.
handleClearHistoryAnytime ==
  /\ UNCHANGED <<shopVars, ledgerStore, voiceVars>>
  /\ activeTab = "home"
  /\ history' = <<>>
  /\ latestResult' = <<>>
  /\ consecutiveBadCountRef' = 0
  /\ rewardedSamples' = 0
  /\ event' = Ev("clear")
  /\ UNCHANGED <<activeTab, isMonitoring, isMonitoringRef, monitorIntervalMs,
                 voiceAlertThreshold, loopVars, error, lastVoiceAlertTimeRef, feedLog, now,
                 pomodoroVars, pomodoroSettings, isGeneratingReport, summaries, totalCoins,
                 savedSessions, showReport, reportSummary, lastEarnedCoins>>

\* handleClearHistory; its button is disabled while monitoring.
handleClearHistory ==
  /\ UNCHANGED <<shopVars, ledgerStore, voiceVars>>
  /\ activeTab = "home"
  /\ ~isMonitoring
  /\ history' = <<>>
  /\ latestResult' = <<>>
  /\ consecutiveBadCountRef' = 0
  /\ rewardedSamples' = 0
  /\ event' = Ev("clear")
  /\ UNCHANGED <<activeTab, isMonitoring, isMonitoringRef, monitorIntervalMs,
                 voiceAlertThreshold, loopVars, error, lastVoiceAlertTimeRef, feedLog, now,
                 pomodoroVars, pomodoroSettings, isGeneratingReport, summaries, totalCoins,
                 savedSessions, showReport, reportSummary, lastEarnedCoins>>

\* Date.now() moves on.
Advance ==
  /\ UNCHANGED <<shopVars, ledgerStore, voiceVars>>
  /\ now' = now + TimeStep
  /\ event' = Ev("clock")
  /\ UNCHANGED <<activeTab, isMonitoring, isMonitoringRef, monitorIntervalMs,
                 voiceAlertThreshold, loopVars, sampleVars, alertVars, pomodoroVars,
                 pomodoroSettings, reportVars>>

\* A preview that counts as an alert of the debouncer.
PreviewVoiceStampsAlert(style) ==
  /\ activeTab = "settings"
  /\ narrations' = Speak(narrations, TRUE, isMonitoring, consecutiveBadCountRef, style, style)
  /\ lastVoiceAlertTimeRef' = now
  /\ event' = [Ev("preview") EXCEPT !.spoke = style, !.voice = style]
  /\ UNCHANGED <<activeTab, isMonitoring, isMonitoringRef, monitorIntervalMs,
                 voiceAlertThreshold, loopVars, sampleVars, consecutiveBadCountRef, feedLog,
                 now, pomodoroVars, pomodoroSettings, reportVars, shopVars, ledgerStore,
                 activeVoiceTheme, storeVoice>>

\* The preview buttons of the settings tab: speakText(text, true, style), lines 849-874.
PreviewVoice(style) ==
  /\ activeTab = "settings"
  /\ narrations' = Speak(narrations, TRUE, isMonitoring, consecutiveBadCountRef, style, style)
  /\ event' = [Ev("preview") EXCEPT
                 !.spoke = IF speakText(TRUE, isMonitoring, consecutiveBadCountRef)
                             THEN style ELSE NULL,
                 !.voice = style]
  /\ UNCHANGED <<activeTab, isMonitoring, isMonitoringRef, monitorIntervalMs,
                 voiceAlertThreshold, loopVars, sampleVars, alertVars, now, pomodoroVars,
                 pomodoroSettings, reportVars, shopVars, ledgerStore, activeVoiceTheme,
                 storeVoice>>

\* The promise of a generateSpeech call settles.  It resolves when the utterance ends or
\* errors (lines 273-274 of geminiService.ts); when it rejects, the catch of speakText hands
\* the text to the basic speech synthesis (lines 117-123).  Neither continuation touches
\* the state of the component.
NarrationOutcomes == {"resolved", "rejected"}

\* A settlement that shows a rejected narration as the diagnostic of the session.
NarrationSettlesSurfacing(n, outcome) ==
  /\ n \in narrations
  /\ narrations' = narrations \ {n}
  /\ event' = IF outcome = "rejected"
                THEN [Ev("narrationFailed") EXCEPT !.spoke = n.text]
                ELSE Ev("narrationEnded")
  /\ error' = IF outcome = "rejected" THEN "narration" ELSE error
  /\ UNCHANGED <<activeTab, isMonitoring, isMonitoringRef, monitorIntervalMs,
                 voiceAlertThreshold, loopVars, latestResult, history, alertVars, now,
                 pomodoroVars, pomodoroSettings, reportVars, shopVars, ledgerStore,
                 activeVoiceTheme, storeVoice>>

NarrationSettles(n, outcome) ==
  /\ n \in narrations
  /\ narrations' = narrations \ {n}
  /\ event' = IF outcome = "rejected"
                THEN [Ev("narrationFailed") EXCEPT !.spoke = n.text]
                ELSE Ev("narrationEnded")
  /\ UNCHANGED <<activeTab, isMonitoring, isMonitoringRef, monitorIntervalMs,
                 voiceAlertThreshold, loopVars, sampleVars, alertVars, now, pomodoroVars,
                 pomodoroSettings, reportVars, shopVars, ledgerStore, activeVoiceTheme,
                 storeVoice>>

(***************************************************************************)
(* Session summarizer                                                      *)
(***************************************************************************)
Max(a, b) == IF a >= b THEN a ELSE b

\* Math.floor(num / den) for den > 0.
MathFloor(num, den) == num \div den

\* Math.round(num / den) for den > 0: the nearest integer, a half rounding up.
MathRound(num, den) == (2 * num + den) \div (2 * den)

RECURSIVE BitLength(_)
BitLength(n) == IF n = 0 THEN 0 ELSE 1 + BitLength(n \div 2)

RECURSIVE Pow2(_)
Pow2(n) == IF n = 0 THEN 1 ELSE 2 * Pow2(n - 1)

\* avgScore / 10 is a double: the nearest one to the tenth, not the tenth.  TenthError[a + 1]
\* is its signed distance from a / 10 in units of 2^-56 / 10, for a = 0 .. 100 (IEEE 754
\* binary64, round to nearest even).
TenthError ==
  <<
    0, 4, 8, -8, 16, 0, -16, -32, 32, 16,
    0, 64, -32, 32, -64, 0, 64, -32, 32, -64,
    0, 64, 128, -128, -64, 0, 64, 128, -128, -64,
    0, 64, 128, -128, -64, 0, 64, 128, -128, -64,
    0, -256, 128, -128, 256, 0, -256, 128, -128, 256,
    0, -256, 128, -128, 256, 0, -256, 128, -128, 256,
    0, -256, 128, -128, 256, 0, -256, 128, -128, 256,
    0, -256, 128, -128, 256, 0, -256, 128, -128, 256,
    0, -256, -512, 512, 256, 0, -256, -512, 512, 256,
    0, -256, -512, 512, 256, 0, -256, -512, 512, 256,
    0
  >>

\* Math.round((avgScore / 10) * durationMinutes) in binary64, for avgScore in 0 .. 100.  The
\* product can only miss the exact rounding when the exact value is k + 1/2: the double product
\* stays k + 1/2 unless the error of the tenth, times durationMinutes, exceeds half the gap
\* between k + 1/2 and the double below it, 2^(b - 53) with 2^b <= k + 1/2 < 2^(b + 1).
RoundTenthTimes(avgScore, durationMinutes) ==
  LET N == avgScore * durationMinutes
      k == N \div 10
      e == TenthError[avgScore + 1]
      halfGap == 10 * Pow2(BitLength(2 * k + 1) + 1)
  IN IF N % 10 # 5 THEN (2 * N + 10) \div 20
     ELSE IF e >= 0 THEN k + 1
     ELSE IF (0 - e) * durationMinutes > halfGap THEN k
     ELSE k + 1

\* The sum of the scores of h[lo .. hi], by halves.
RECURSIVE SumScores(_, _, _)
SumScores(h, lo, hi) ==
  IF lo > hi THEN 0
  ELSE IF lo = hi THEN h[lo].concentrationScore
  ELSE LET mid == (lo + hi) \div 2
       IN SumScores(h, lo, mid) + SumScores(h, mid + 1, hi)

\* history.reduce((sum, item) => sum + item.concentrationScore, 0)
TotalScore(h) == SumScores(h, 1, Len(h))

\* A histogram that leaves out the postures it does not know.
PostureStatsOfKnown(h) ==
  [p \in {h[i].posture : i \in DOMAIN h} \ {"UNKNOWN"} |->
     Cardinality({i \in DOMAIN h : h[i].posture = p})]

\* Lines 306-309: acc[item.posture] = (acc[item.posture] || 0) + 1.
PostureStats(h) ==
  [p \in {h[i].posture : i \in DOMAIN h} |-> Cardinality({i \in DOMAIN h : h[i].posture = p})]

\* A summary whose duration is the sample count times the interval in milliseconds.
SummarizeInMilliseconds(h, intervalMs, aiComment) ==
  LET isDistracted(x) == Len(x.detectedDistractions) > 0 \/ x.hasElectronicDevice
  IN [averageScore |-> MathRound(TotalScore(h), Len(h)),
      totalDurationSeconds |-> Len(h) * intervalMs,
      distractionCount |-> Cardinality({i \in DOMAIN h : isDistracted(h[i])}),
      postureStats |-> PostureStats(h),
      aiComment |-> aiComment]

\* Lines 301-323: the summary of a non-empty history.
Summarize(h, intervalMs, aiComment) ==
  LET isDistracted(x) == Len(x.detectedDistractions) > 0 \/ x.hasElectronicDevice
  IN [averageScore |-> MathRound(TotalScore(h), Len(h)),
      totalDurationSeconds |-> Len(h) * (intervalMs \div 1000),
      distractionCount |-> Cardinality({i \in DOMAIN h : isDistracted(h[i])}),
      postureStats |-> PostureStats(h),
      aiComment |-> aiComment]

\* Lines 314-315.
DurationMinutes(summary) == Max(1, MathRound(summary.totalDurationSeconds, SECONDS_PER_MINUTE))

EarnedCoins(summary) == Max(0, RoundTenthTimes(summary.averageScore, DurationMinutes(summary)))

\* A log that is never cut.
TakeAll(q, n) == q

\* [newSession, ...prev].slice(0, n)
Take(q, n) == IF Len(q) <= n THEN q ELSE SubSeq(q, 1, n)

\* generateSessionSummary, geminiService.ts lines 114-161, by the outcome of its chat
\* completion: the text of the reply, a fixed string for a reply without text, and, from
\* its catch, a fixed string for a call that failed; it never rejects.
SummaryOutcomes == {"resolved", "empty", "rejected"}

generateSessionSummary(outcome) ==
  CASE outcome = "resolved" -> "ai comment"
    [] outcome = "empty" -> "no summary"
    [] outcome = "rejected" -> "summary failed"

SummaryComments == {generateSessionSummary("resolved"), generateSessionSummary("rejected")}

\* A close that never finds the history empty.
NoSamplesNever(h) == FALSE

\* history.length === 0, line 297.
NoSamples(h) == h = <<>>

\* handleStopAndReport up to its await: lines 290-311.  The handler is modelled with its own
\* guard; its button is disabled while the history is empty.
handleStopAndReport ==
  /\ UNCHANGED <<shopVars, ledgerStore, voiceVars>>
  /\ activeTab = "home"
  /\ ~isGeneratingReport
  /\ IF isMonitoring
       THEN CommitInactive(ClearAndNull(Loop))
       ELSE /\ SetLoop(ClearAndNull(Loop))
            /\ UNCHANGED <<isMonitoring, isMonitoringRef, consecutiveBadCountRef,
                           elapsedSeconds, isOnBreak, pomodoroTimer, pomodoroTicks>>
  /\ IF NoSamples(history)
       THEN /\ event' = Ev("closeEmpty")
            /\ UNCHANGED <<isGeneratingReport, summaries>>
       ELSE /\ event' = Ev("close")
            /\ isGeneratingReport' = TRUE
            /\ summaries' = summaries (+)
                 One([history |-> history, intervalMs |-> monitorIntervalMs])
  /\ UNCHANGED <<activeTab, monitorIntervalMs, voiceAlertThreshold, sampleVars,
                 lastVoiceAlertTimeRef, feedLog, now, pomodoroSettings, totalCoins,
                 savedSessions, showReport, reportSummary, lastEarnedCoins, rewardedSamples>>

\* A close that shows the failure of the summary as the diagnostic.
SummarySettlesSurfacing(s, aiComment) ==
  /\ UNCHANGED <<shopVars, voiceVars>>
  /\ BagIn(s, summaries)
  /\ LET summary == Summarize(s.history, s.intervalMs, aiComment)
         earnedCoins == EarnedCoins(summary)
         newSession == [id |-> now, createdAt |-> now, summary |-> summary,
                        earnedCoins |-> earnedCoins]
     IN /\ reportSummary' = <<summary>>
        /\ lastEarnedCoins' = <<earnedCoins>>
        /\ totalCoins' = totalCoins + earnedCoins
        /\ savedSessions' = Take(<<newSession>> \o savedSessions, SAVED_SESSIONS_MAX)
  /\ storeCoins' = Stored("number", totalCoins')
  /\ storeSessions' = Stored("array", savedSessions')
  /\ summaries' = summaries (-) One(s)
  /\ rewardedSamples' = IF history = s.history THEN Len(history) ELSE 0
  /\ isGeneratingReport' = FALSE
  /\ showReport' = TRUE
  /\ event' = Ev("report")
  /\ error' = IF aiComment = generateSessionSummary("rejected") THEN aiComment ELSE error
  /\ UNCHANGED <<activeTab, isMonitoring, isMonitoringRef, monitorIntervalMs,
                 voiceAlertThreshold, loopVars, latestResult, history, alertVars, now,
                 pomodoroVars, pomodoroSettings>>

\* handleStopAndReport after its await: lines 313-357.
SummarySettles(s, aiComment) ==
  /\ UNCHANGED <<shopVars, voiceVars>>
  /\ BagIn(s, summaries)
  /\ LET summary == Summarize(s.history, s.intervalMs, aiComment)
         earnedCoins == EarnedCoins(summary)
         newSession == [id |-> now, createdAt |-> now, summary |-> summary,
                        earnedCoins |-> earnedCoins]
     IN /\ reportSummary' = <<summary>>
        /\ lastEarnedCoins' = <<earnedCoins>>
        /\ totalCoins' = totalCoins + earnedCoins
        /\ savedSessions' = Take(<<newSession>> \o savedSessions, SAVED_SESSIONS_MAX)
  /\ storeCoins' = Stored("number", totalCoins')
  /\ storeSessions' = Stored("array", savedSessions')
  /\ summaries' = summaries (-) One(s)
  /\ rewardedSamples' = IF history = s.history THEN Len(history) ELSE 0
  /\ isGeneratingReport' = FALSE
  /\ showReport' = TRUE
  /\ event' = Ev("report")
  /\ UNCHANGED <<activeTab, isMonitoring, isMonitoringRef, monitorIntervalMs,
                 voiceAlertThreshold, loopVars, sampleVars, alertVars, now, pomodoroVars,
                 pomodoroSettings>>

\* onClose={() => setShowReport(false)}
CloseReport ==
  /\ UNCHANGED <<shopVars, ledgerStore, voiceVars>>
  /\ showReport
  /\ showReport' = FALSE
  /\ event' = Ev("closeReport")
  /\ UNCHANGED <<activeTab, isMonitoring, isMonitoringRef, monitorIntervalMs,
                 voiceAlertThreshold, loopVars, sampleVars, alertVars, now, pomodoroVars,
                 pomodoroSettings, isGeneratingReport, summaries, totalCoins, savedSessions,
                 reportSummary, lastEarnedCoins, rewardedSamples>>

\* A localStorage.setItem of the close throws (QuotaExceededError) inside its state updater:
\* the updaters run while React renders, the throw unmounts the component and the page is
\* loaded again from the store.  landed is what the store holds of the two writes of lines
\* 328-349 by then: the amount only, the log entry only, or neither.
StoreWriteOutcomes == {"coins", "sessions", "neither"}

SummarySettlesStoreFails(s, aiComment, landed) ==
  /\ BagIn(s, summaries)
  /\ LET summary == Summarize(s.history, s.intervalMs, aiComment)
         earnedCoins == EarnedCoins(summary)
         newSession == [id |-> now, createdAt |-> now, summary |-> summary,
                        earnedCoins |-> earnedCoins]
     IN /\ storeCoins' = IF landed = "coins"
                           THEN Stored("number", totalCoins + earnedCoins) ELSE storeCoins
        /\ storeSessions' = IF landed = "sessions"
                              THEN Stored("array", Take(<<newSession>> \o savedSessions,
                                                        SAVED_SESSIONS_MAX))
                              ELSE storeSessions
  /\ Remount(storeCoins', storeSessions', storePurchased)
  /\ UNCHANGED <<storePurchased, storeVoice>>
  /\ now' = now + TimeStep
  /\ event' = Ev("reportFailed")

\* The page is loaded again: every useState and useRef starts over and the load effect reads
\* the store; the clock has moved on.
Reload ==
  /\ Remount(storeCoins, storeSessions, storePurchased)
  /\ now' = now + TimeStep
  /\ event' = Ev("reload")
  /\ UNCHANGED <<storeCoins, storeSessions, storePurchased, storeVoice>>

(***************************************************************************)
(* Shop                                                                    *)
(***************************************************************************)
\* A shop that sells whatever the balance is.
CanAffordAlways(coins, price) == TRUE

\* !(totalCoins < item.price), line 369.
CanAfford(coins, price) == ~(coins < price)

\* A purchase that sells an item already unlocked once more.
handlePurchaseAgain(item) ==
  /\ IF ~CanAfford(totalCoins, ShopPrice[item])
       THEN UNCHANGED <<purchasedItems, totalCoins, storeCoins, storePurchased>>
       ELSE /\ purchasedItems' = purchasedItems \cup {item}
            /\ totalCoins' = totalCoins - ShopPrice[item]
            /\ storeCoins' = Stored("number", totalCoins')
            /\ storePurchased' = Stored("array", purchasedItems')
  /\ event' = [Ev("purchase") EXCEPT !.item = item]
  /\ UNCHANGED <<activeTab, isMonitoring, isMonitoringRef, monitorIntervalMs,
                 voiceAlertThreshold, loopVars, sampleVars, alertVars, now, pomodoroVars,
                 pomodoroSettings, isGeneratingReport, summaries, savedSessions, showReport,
                 reportSummary, lastEarnedCoins, rewardedSamples, storeSessions, calc,
                 voiceVars>>

\* handlePurchase, lines 367-384.  The handler is modelled with its own guards; its button
\* is disabled while the balance is below the price.
handlePurchase(item) ==
  /\ IF item \in purchasedItems \/ ~CanAfford(totalCoins, ShopPrice[item])
       THEN UNCHANGED <<purchasedItems, totalCoins, storeCoins, storePurchased>>
       ELSE /\ purchasedItems' = purchasedItems \cup {item}
            /\ totalCoins' = totalCoins - ShopPrice[item]
            /\ storeCoins' = Stored("number", totalCoins')
            /\ storePurchased' = Stored("array", purchasedItems')
  /\ event' = [Ev("purchase") EXCEPT !.item = item]
  /\ UNCHANGED <<activeTab, isMonitoring, isMonitoringRef, monitorIntervalMs,
                 voiceAlertThreshold, loopVars, sampleVars, alertVars, now, pomodoroVars,
                 pomodoroSettings, isGeneratingReport, summaries, savedSessions, showReport,
                 reportSummary, lastEarnedCoins, rewardedSamples, storeSessions, calc,
                 voiceVars>>

\* handleApplyVoice, lines 394-403; its button is shown for an unlocked voice and disabled for
\* the active one.  landed: the localStorage.setItem of line 401 did not throw.  The new
\* activeVoiceTheme re-runs the pomodoro effect, which replaces its interval; it is not a
\* dependency of captureAndAnalyze.  (voiceStyle, set along, is only shown by a select.)
handleApplyVoice(voiceId, landed) ==
  /\ activeTab = "shop"
  /\ voiceId \in purchasedItems \/ ShopPrice[voiceId] = 0
  /\ voiceId # activeVoiceTheme
  /\ activeVoiceTheme' = voiceId
  /\ storeVoice' = IF landed THEN Stored("text", voiceId) ELSE storeVoice
  /\ event' = [Ev("applyVoice") EXCEPT !.item = voiceId]
  /\ UNCHANGED <<activeTab, isMonitoring, isMonitoringRef, monitorIntervalMs,
                 voiceAlertThreshold, loopVars, sampleVars, alertVars, now, pomodoroVars,
                 pomodoroSettings, reportVars, shopVars, ledgerStore, narrations>>

\* Histories for the summary arithmetic: n samples, the odd ones scoring s1 and the even ones
\* s2, the postures taken in turn, every third sample with a device in view.
PostureCycle == <<"GOOD", "SLOUCHING", "TOO_CLOSE", "TOO_FAR", "UNKNOWN">>

SampleHistory(n, s1, s2) ==
  [i \in 1..n |->
     Stamp([concentrationScore |-> IF i % 2 = 1 THEN s1 ELSE s2,
            isLookingAtScreen |-> TRUE,
            posture |-> PostureCycle[(i % 5) + 1],
            hasElectronicDevice |-> (i % 3 = 0),
            detectedDistractions |-> <<>>,
            feedback |-> "sample"], i)]

\* Lines 301-323 applied to a history and an interval: the summary and the reward.
SummarizeHistory(n, s1, s2, intervalMs) ==
  /\ calc = <<>>
  /\ LET h == SampleHistory(n, s1, s2)
         summary == Summarize(h, intervalMs, "ai comment")
     IN calc' = <<[history |-> h, intervalMs |-> intervalMs, summary |-> summary,
                  durationMinutes |-> DurationMinutes(summary),
                  earnedCoins |-> EarnedCoins(summary)]>>
  /\ event' = Ev("summarize")
  /\ UNCHANGED <<activeTab, isMonitoring, isMonitoringRef, monitorIntervalMs,
                 voiceAlertThreshold, loopVars, sampleVars, alertVars, now, pomodoroVars,
                 pomodoroSettings, reportVars, purchasedItems, storePurchased, ledgerStore,
                 voiceVars>>

(***************************************************************************)
(* Pomodoro timer                                                          *)
(***************************************************************************)
\* An updater that restarts the count at the Work -> Break edge.
PomodoroStepRestartsAtBreak(prev, onBreak, workMin, breakMin) ==
  LET next == prev + 1
      workSeconds == workMin * SECONDS_PER_MINUTE
      breakSeconds == breakMin * SECONDS_PER_MINUTE
  IN IF ~onBreak /\ next >= workSeconds
       THEN [elapsedSeconds |-> 0, isOnBreak |-> TRUE, spoke |-> "startBreak"]
     ELSE IF onBreak /\ next >= breakSeconds
       THEN [elapsedSeconds |-> 0, isOnBreak |-> FALSE, spoke |-> "resumeWork"]
     ELSE [elapsedSeconds |-> next, isOnBreak |-> onBreak, spoke |-> NULL]

\* An updater that resumes work without a word.
PomodoroStepSilentResume(prev, onBreak, workMin, breakMin) ==
  LET next == prev + 1
      workSeconds == workMin * SECONDS_PER_MINUTE
      breakSeconds == breakMin * SECONDS_PER_MINUTE
  IN IF ~onBreak /\ next >= workSeconds
       THEN [elapsedSeconds |-> next, isOnBreak |-> TRUE, spoke |-> "startBreak"]
     ELSE IF onBreak /\ next >= workSeconds + breakSeconds
       THEN [elapsedSeconds |-> 0, isOnBreak |-> FALSE, spoke |-> NULL]
     ELSE [elapsedSeconds |-> next, isOnBreak |-> onBreak, spoke |-> NULL]

\* The updater of setElapsedSeconds run by the one-second interval: lines 462-485.
PomodoroStep(prev, onBreak, workMin, breakMin) ==
  LET next == prev + 1
      workSeconds == workMin * SECONDS_PER_MINUTE
      breakSeconds == breakMin * SECONDS_PER_MINUTE
  IN IF ~onBreak /\ next >= workSeconds
       THEN [elapsedSeconds |-> next, isOnBreak |-> TRUE, spoke |-> "startBreak"]
     ELSE IF onBreak /\ next >= workSeconds + breakSeconds
       THEN [elapsedSeconds |-> 0, isOnBreak |-> FALSE, spoke |-> "resumeWork"]
     ELSE [elapsedSeconds |-> next, isOnBreak |-> onBreak, spoke |-> NULL]

\* getPomodoroWorkText, lines 494-508: the phrase that ends a work phase, by voice style
\* (each phrase is named here by its style; any other style gets the gentle phrase).
getPomodoroWorkText(style) ==
  CASE style = "strict" -> "rest now (strict)"
    [] style = "energetic" -> "rest now (energetic)"
    [] style = "calm" -> "rest now (calm)"
    [] style = "motivational" -> "rest now (motivational)"
    [] OTHER -> "rest now (gentle)"

\* getPomodoroBreakText, lines 511-525: the phrase that ends a break.
getPomodoroBreakText(style) ==
  CASE style = "strict" -> "back to work (strict)"
    [] style = "energetic" -> "back to work (energetic)"
    [] style = "calm" -> "back to work (calm)"
    [] style = "motivational" -> "back to work (motivational)"
    [] OTHER -> "back to work (gentle)"

\* The text the updater hands to speakText: lines 469-470 and 477-478.
PomodoroText(spoke, style) ==
  IF spoke = "startBreak" THEN getPomodoroWorkText(style)
  ELSE IF spoke = "resumeWork" THEN getPomodoroBreakText(style)
  ELSE NULL

PomodoroTick ==
  /\ UNCHANGED <<shopVars, ledgerStore, activeVoiceTheme, storeVoice>>
  /\ pomodoroTimer
  /\ LET r == PomodoroStep(elapsedSeconds, isOnBreak, workDurationMin, breakDurationMin)
     IN /\ elapsedSeconds' = r.elapsedSeconds
        /\ isOnBreak' = r.isOnBreak
        /\ pomodoroTicks' = IF elapsedSeconds = 0 /\ ~isOnBreak THEN 1 ELSE pomodoroTicks + 1
        /\ narrations' =
             IF r.spoke = NULL THEN narrations
             ELSE Speak(narrations, FALSE, TRUE, consecutiveBadCountRef,
                        PomodoroText(r.spoke, activeVoiceTheme), activeVoiceTheme)
        /\ event' = [Ev("pomodoro") EXCEPT !.spoke = PomodoroText(r.spoke, activeVoiceTheme),
                     !.voice = IF r.spoke = NULL THEN NULL ELSE activeVoiceTheme]
  /\ UNCHANGED <<activeTab, isMonitoring, isMonitoringRef, monitorIntervalMs,
                 voiceAlertThreshold, loopVars, sampleVars, alertVars, now, pomodoroTimer,
                 pomodoroSettings, reportVars>>

\* A reset that zeroes the count and keeps the phase.
ResetPomodoroKeepsPhase ==
  /\ UNCHANGED <<shopVars, ledgerStore, voiceVars>>
  /\ elapsedSeconds' = 0
  /\ pomodoroTicks' = 0
  /\ event' = Ev("reset")
  /\ UNCHANGED <<activeTab, isMonitoring, isMonitoringRef, monitorIntervalMs,
                 voiceAlertThreshold, loopVars, sampleVars, alertVars, now, pomodoroTimer,
                 isOnBreak, pomodoroSettings, reportVars>>

\* onResetPomodoro={() => { setElapsedSeconds(0); setIsOnBreak(false); }}: neither state is
\* a dependency whose change ends the pomodoro effect for good (a change of isOnBreak
\* replaces the interval by a new one), so the interval of an active session keeps ticking.
ResetPomodoro ==
  /\ UNCHANGED <<shopVars, ledgerStore, voiceVars>>
  /\ elapsedSeconds' = 0
  /\ isOnBreak' = FALSE
  /\ pomodoroTicks' = 0
  /\ event' = Ev("reset")
  /\ UNCHANGED <<activeTab, isMonitoring, isMonitoringRef, monitorIntervalMs,
                 voiceAlertThreshold, loopVars, sampleVars, alertVars, now, pomodoroTimer,
                 pomodoroSettings, reportVars>>

\* The work and break inputs of the settings tab: lines 884-915.
SetPomodoroDurations(workMin, breakMin) ==
  /\ UNCHANGED <<shopVars, ledgerStore, voiceVars>>
  /\ activeTab = "settings"
  /\ <<workMin, breakMin>> # <<workDurationMin, breakDurationMin>>
  /\ workDurationMin' = workMin
  /\ breakDurationMin' = breakMin
  /\ event' = Ev("durations")
  /\ UNCHANGED <<activeTab, isMonitoring, isMonitoringRef, monitorIntervalMs,
                 voiceAlertThreshold, loopVars, sampleVars, alertVars, now, pomodoroVars,
                 reportVars>>

SetWorkDurationMin(m) == SetPomodoroDurations(m, breakDurationMin)

SetBreakDurationMin(m) == SetPomodoroDurations(workDurationMin, m)

(***************************************************************************)
(* Specifications                                                          *)
(***************************************************************************)
\* The capture scheduler with the session close: the loop under start, pause, stop-and-report,
\* tab and setting changes and every settlement of the analyze call.
Next ==
  \/ \E tab \in Tabs : SetActiveTab(tab)
  \/ Chains < MaxChains /\ StartMonitoring
  \/ PauseMonitoring
  \/ \E t \in BagToSet(timers) : TimerFires(t)
  \/ Len(history) < MaxHistory /\
       \E c \in BagToSet(inflight), output \in AnalysisOutputs : AnalyzeSucceeds(c, output)
  \/ \E c \in BagToSet(inflight), err \in AnalysisErrors : AnalyzeFails(c, err)
  \/ \E c \in BagToSet(inflight), err \in AnalysisErrors : AnalyzeFailsFatally(c, err)
  \/ Chains < MaxChains /\ \E v \in MonitorIntervals : SetMonitorIntervalMs(v)
  \/ Len(savedSessions) < MaxCloses /\ handleStopAndReport
  \/ \E s \in BagToSet(summaries), aiComment \in SummaryComments : SummarySettles(s, aiComment)

Spec == Init /\ [][Next]_vars

\* The scheduler with the browser's event loop running: a pending timer fires, and an
\* analyze call settles, by resolving or by rejecting.
TimerTask == \E t \in BagToSet(timers) : TimerFires(t)

LoopErrors == {{}, {"429"}, {"API Key"}}

Settlement ==
  \/ Len(history) < MaxLoopHistory /\ \E c \in BagToSet(inflight) : AnalyzeSucceeds(c, GoodOutput)
  \/ \E c \in BagToSet(inflight), err \in LoopErrors : AnalyzeFails(c, err)
  \/ \E c \in BagToSet(inflight), err \in LoopErrors : AnalyzeFailsFatally(c, err)

NextLoop ==
  \/ \E tab \in Tabs : SetActiveTab(tab)
  \/ Chains < MaxChains /\ StartMonitoring
  \/ PauseMonitoring
  \/ TimerTask
  \/ Settlement
  \/ Chains < MaxChains /\ \E v \in MonitorIntervals : SetMonitorIntervalMs(v)

SpecLoop == Init /\ [][NextLoop]_vars /\ WF_vars(TimerTask) /\ WF_vars(Settlement)

\* The alert debouncer: a session fed with results while the clock moves, paused and resumed,
\* for each threshold the settings offer.
InitDebounce ==
  \E threshold \in AlertThresholds :
    Mounted(threshold, DEFAULT_POMODORO_WORK_MIN, DEFAULT_POMODORO_BREAK_MIN)

NextDebounce ==
  \/ Chains < MaxChains /\ StartMonitoring
  \/ PauseMonitoring
  \/ \E t \in BagToSet(timers) : TimerFires(t)
  \/ Len(feedLog) < MaxFeed /\
       \E c \in BagToSet(inflight), output \in AnalysisOutputs : AnalyzeSucceeds(c, output)
  \/ now < StartTime + MaxClock * TimeStep /\ Advance

SpecDebounce == InitDebounce /\ [][NextDebounce]_vars

\* The alert rule: one chain fed with results at the edges of the bad-state rule.
NextAlertRule ==
  \/ Chains = 0 /\ StartMonitoring
  \/ PauseMonitoring
  \/ \E t \in BagToSet(timers) : TimerFires(t)
  \/ Len(feedLog) < MaxRuleFeed /\
       \E c \in BagToSet(inflight), output \in RuleOutputs : AnalyzeSucceeds(c, output)
  \/ now < StartTime + MaxClock * TimeStep /\ Advance

SpecAlertRule == InitDebounce /\ [][NextAlertRule]_vars

\* Narration beside the loop: the alerts of one chain, each narration settling at any later
\* step or never.
NextNarration ==
  \/ Chains = 0 /\ StartMonitoring
  \/ PauseMonitoring
  \/ \E t \in BagToSet(timers) : TimerFires(t)
  \/ Len(feedLog) < MaxRuleFeed /\
       \E c \in BagToSet(inflight), output \in AnalysisOutputs : AnalyzeSucceeds(c, output)
  \/ now < StartTime + MaxClock * TimeStep /\ Advance
  \/ \E n \in narrations, outcome \in NarrationOutcomes : NarrationSettles(n, outcome)

SpecNarration == InitDebounce /\ [][NextNarration]_vars

\* The voice theme changed in the shop while a session runs.
ShopTabs == {"home", "shop"}

NextVoice ==
  \/ \E tab \in ShopTabs : SetActiveTab(tab)
  \/ Chains = 0 /\ StartMonitoring
  \/ PauseMonitoring
  \/ \E t \in BagToSet(timers) : TimerFires(t)
  \/ Len(feedLog) < MaxRuleFeed /\
       \E c \in BagToSet(inflight), output \in AnalysisOutputs : AnalyzeSucceeds(c, output)
  \/ \E voiceId \in VoiceThemes, landed \in BOOLEAN : handleApplyVoice(voiceId, landed)

SpecVoice == InitDebounce /\ [][NextVoice]_vars

\* The pomodoro timer: the one-second interval under every way a session starts and stops,
\* for durations the settings accept.
InitPomodoro ==
  \E workMin \in WorkMinutes, breakMin \in BreakMinutes :
    Mounted(DEFAULT_VOICE_ALERT_THRESHOLD, workMin, breakMin)

NextPomodoro ==
  \/ Chains < MaxChains /\ StartMonitoring
  \/ PauseMonitoring
  \/ handleStopAndReport
  \/ \E t \in BagToSet(timers) : TimerFires(t)
  \/ \E c \in BagToSet(inflight) : AnalyzeFails(c, {})
  \/ \E c \in BagToSet(inflight) : AnalyzeFailsFatally(c, {"API Key"})
  \/ PomodoroTick
  \/ ResetPomodoro

SpecPomodoro == InitPomodoro /\ [][NextPomodoro]_vars

\* The pomodoro narration: the one-second interval while the voice style is changed in the
\* shop, over sessions started and paused.
InitPhrase ==
  LET workMin == CHOOSE m \in WorkMinutes : \A n \in WorkMinutes : m <= n
      breakMin == CHOOSE m \in BreakMinutes : \A n \in BreakMinutes : m <= n
  IN Mounted(DEFAULT_VOICE_ALERT_THRESHOLD, workMin, breakMin)

NextPhrase ==
  \/ Chains < MaxChains /\ StartMonitoring
  \/ PauseMonitoring
  \/ \E tab \in ShopTabs : SetActiveTab(tab)
  \/ \E voiceId \in VoicePreviews : handleApplyVoice(voiceId, TRUE)
  \/ PomodoroTick

SpecPhrase == InitPhrase /\ [][NextPhrase]_vars

\* The pomodoro reset: the reset button of the header pressed in a session that samples and
\* counts bad results while its pomodoro interval ticks.
NextReset ==
  \/ Chains < MaxChains /\ StartMonitoring
  \/ \E t \in BagToSet(timers) : TimerFires(t)
  \/ Len(history) < MaxLoopHistory /\
       \E c \in BagToSet(inflight), output \in AnalysisOutputs : AnalyzeSucceeds(c, output)
  \/ PomodoroTick
  \/ ResetPomodoro

SpecReset == InitPhrase /\ [][NextReset]_vars

\* The history: results appended as the clock moves on, over sessions started, paused and
\* cleared.
NextHistory ==
  \/ Chains < MaxChains /\ StartMonitoring
  \/ PauseMonitoring
  \/ \E t \in BagToSet(timers) : TimerFires(t)
  \/ Len(history) < MaxHistory /\ Len(feedLog) < MaxFeed /\
       \E c \in BagToSet(inflight), output \in AnalysisOutputs : AnalyzeSucceeds(c, output)
  \/ now < StartTime + MaxClock * TimeStep /\ Advance
  \/ handleClearHistory

SpecHistory == Init /\ [][NextHistory]_vars

\* The pomodoro settings: the work and break durations changed on the settings tab while the
\* interval of a session ticks, with resets, pauses and new starts.
NextDurations ==
  \/ \E tab \in Tabs : SetActiveTab(tab)
  \/ Chains < MaxChains /\ StartMonitoring
  \/ PauseMonitoring
  \/ PomodoroTick
  \/ ResetPomodoro
  \/ \E workMin \in WorkMinutes : SetWorkDurationMin(workMin)
  \/ \E breakMin \in BreakMinutes : SetBreakDurationMin(breakMin)

SpecDurations == Init /\ [][NextDurations]_vars

\* The session close: sessions recorded, closed, closed again and cleared.
NextClose ==
  \/ Chains < MaxChains /\ StartMonitoring
  \/ \E t \in BagToSet(timers) : TimerFires(t)
  \/ Len(history) < MaxHistory /\ Len(feedLog) < MaxFeed /\
       \E c \in BagToSet(inflight), output \in AnalysisOutputs : AnalyzeSucceeds(c, output)
  \/ Len(savedSessions) + BagCardinality(summaries) < MaxReports /\ handleStopAndReport
  \/ \E s \in BagToSet(summaries), aiComment \in SummaryComments : SummarySettles(s, aiComment)
  \/ handleClearHistory
  \/ CloseReport

SpecClose == Init /\ [][NextClose]_vars

\* The ledger: session closes, purchases and page loads over a store that held, at the
\* first load, nothing, values the application wrote, or values it cannot read.
OldSession(k) ==
  [id |-> k, createdAt |-> k,
   summary |-> Summarize(<<Stamp(GoodOutput, k)>>, DEFAULT_MONITOR_INTERVAL_MS, "ai comment"),
   earnedCoins |-> 9]

\* A log of n earlier sessions, newest first.
OldLog(n) == [i \in 1..n |-> OldSession(n - i + 1)]

StartupCoins == {Absent, Stored("number", 250), Stored("number", 0 - 5), Stored("text", 0)}

StartupSessions ==
  {Absent, Stored("array", OldLog(SAVED_SESSIONS_MAX - 1)), Stored("json", <<>>),
   Stored("malformed", <<>>)}

StartupPurchased ==
  {Absent, Stored("array", {"dark"}), Stored("json", {}), Stored("malformed", {})}

OfferedItems == {"default", "dark", "energetic"}

InitLedger ==
  \E sc \in StartupCoins, ss \in StartupSessions, sp \in StartupPurchased :
    MountedFrom(DEFAULT_VOICE_ALERT_THRESHOLD, DEFAULT_POMODORO_WORK_MIN,
                DEFAULT_POMODORO_BREAK_MIN, sc, ss, sp)

NextLedger ==
  \/ Chains < MaxLedgerSamples /\ StartMonitoring
  \/ Len(history) < MaxLedgerSamples /\
       \E c \in BagToSet(inflight) : AnalyzeSucceeds(c, GoodOutput)
  \/ rewardedSamples = 0 /\ handleStopAndReport
  \/ \E s \in BagToSet(summaries) : SummarySettles(s, "ai comment")
  \/ now < StartTime + MaxReloads * TimeStep /\
       \E s \in BagToSet(summaries), landed \in StoreWriteOutcomes :
         SummarySettlesStoreFails(s, "ai comment", landed)
  \/ \E item \in OfferedItems : handlePurchase(item)
  \/ now < StartTime + MaxReloads * TimeStep /\ Reload

SpecLedger == InitLedger /\ [][NextLedger]_vars

\* The voice preview: the preview buttons pressed in every state of the debouncer.
NextPreview ==
  \/ \E tab \in Tabs : SetActiveTab(tab)
  \/ Chains < MaxChains /\ StartMonitoring
  \/ PauseMonitoring
  \/ \E t \in BagToSet(timers) : TimerFires(t)
  \/ Len(feedLog) < MaxHistory /\
       \E c \in BagToSet(inflight), output \in AnalysisOutputs : AnalyzeSucceeds(c, output)
  \/ now < StartTime + MaxClock * TimeStep /\ Advance
  \/ \E style \in VoicePreviews : PreviewVoice(style)

SpecPreview == InitDebounce /\ [][NextPreview]_vars

\* The operations beside the debouncer: a session with a balance to spend, paused, closed,
\* cleared, reconfigured, with previews, purchases and pomodoro ticks in between.
InitFrame ==
  MountedFrom(DEFAULT_VOICE_ALERT_THRESHOLD, DEFAULT_POMODORO_WORK_MIN,
              DEFAULT_POMODORO_BREAK_MIN, Stored("number", 250), Absent, Absent)

FrameIntervals == {3000}        \* of the selectable {3000, 5000, 10000}

FrameThresholds == {3}          \* of the selectable {1, 2, 3}

FrameItems == {"energetic"}     \* of SHOP_THEMES and SHOP_VOICES

NextFrame ==
  \/ \E tab \in Tabs : SetActiveTab(tab)
  \/ Chains = 0 /\ StartMonitoring
  \/ PauseMonitoring
  \/ \E t \in BagToSet(timers) : TimerFires(t)
  \/ Len(feedLog) < MaxHistory /\
       \E c \in BagToSet(inflight), output \in AnalysisOutputs : AnalyzeSucceeds(c, output)
  \/ \E c \in BagToSet(inflight) : AnalyzeFailsFatally(c, {"API Key"})
  \/ Len(savedSessions) + BagCardinality(summaries) < MaxCloses /\ handleStopAndReport
  \/ \E s \in BagToSet(summaries) : SummarySettles(s, "ai comment")
  \/ handleClearHistory
  \/ Cardinality(narrations) < MaxFrameNarrations /\
       \E style \in VoicePreviews : PreviewVoice(style)
  \/ elapsedSeconds < MaxFrameSeconds /\ PomodoroTick
  \/ \E item \in FrameItems : handlePurchase(item)
  \/ inflight = EmptyBag /\ \E v \in FrameIntervals : SetMonitorIntervalMs(v)
  \/ inflight = EmptyBag /\ \E v \in FrameThresholds : SetVoiceAlertThreshold(v)

SpecFrame == InitFrame /\ [][NextFrame]_vars

\* The summary arithmetic: lines 301-315 applied to histories of several lengths and scores.
NextSummary ==
  \E n \in HistoryLengths, s1 \in SampleScores, s2 \in SampleScores,
     intervalMs \in MonitorIntervals : SummarizeHistory(n, s1, s2, intervalMs)

SpecSummary == Init /\ [][NextSummary]_vars

(***************************************************************************)
(* Claims                                                                  *)
(***************************************************************************)
Settlements == {"success", "failure", "fatal"}

\* C1: in every reachable state at most one tick chain exists: the pending tick timers
\* plus the in-flight analyze calls number at most one.
C1_AtMostOneChain == BagCardinality(timers) + BagCardinality(inflight) <= 1

\* C2: the settlement of an analyze call that was in flight when the session was
\* deactivated appends nothing to history, leaves latest, lastError and the alert state
\* as they were and schedules no tick, whatever happened in between.
C2_StoppedCallSettlesInertly ==
  [][(event'.op \in Settlements /\ event'.sawStop) =>
       UNCHANGED <<history, latestResult, error, consecutiveBadCountRef,
                   lastVoiceAlertTimeRef, feedLog, timers, timeoutRef>>]_vars

C4_NoTimerWhileInactive == ~isMonitoring => timers = EmptyBag

\* C5: whenever the session is inactive the pomodoro interval does not exist, elapsedSeconds
\* is 0 and isOnBreak is false.
C5_InactiveMeansPomodoroZeroed ==
  ~isMonitoring => (~pomodoroTimer /\ elapsedSeconds = 0 /\ ~isOnBreak)

C5_Witness ==
  /\ ~isMonitoring
  /\ event.op \in {"pause", "close", "closeEmpty", "fatal"}
  /\ elapsedSeconds = 0

\* T + 1 consecutive bad results are in the log from entry i on, fed to a debouncer of
\* threshold T whose counter was 0 and was not zeroed from outside in between, and no alert
\* fired within the cooldown that precedes the T-th of them.
BadRun(i, T) ==
  /\ i >= 1
  /\ i + T <= Len(feedLog)
  /\ feedLog[i].before = 0
  /\ \A k \in i..(i + T) : feedLog[k].bad /\ feedLog[k].threshold = T
  /\ \A k \in i..(i + T - 1) : feedLog[k + 1].before = feedLog[k].after
  /\ \A j \in 1..(i + T - 2) :
       ~(feedLog[j].fired /\ feedLog[i + T - 1].at - feedLog[j].at <= VOICE_COOLDOWN_MS)

\* C6 as stated: with threshold T and no alert within the preceding cooldown, T + 1
\* consecutive bad results produce exactly one alert, fired at the T-th, and the counter is 0
\* right after the firing.
C6_ExactlyOneAlertPerRun ==
  \A T \in AlertThresholds : \A i \in DOMAIN feedLog :
    BadRun(i, T) =>
      /\ feedLog[i + T - 1].fired
      /\ feedLog[i + T - 1].after = 0
      /\ \A k \in i..(i + T) : k # i + T - 1 => ~feedLog[k].fired

\* C6, amended: with threshold T and no alert within the preceding cooldown, the T-th of
\* T + 1 consecutive bad results fires an alert and leaves the counter at 0, none of the
\* earlier ones fires, and the last one fires a second alert exactly when T = 1 and it is
\* processed more than VOICE_COOLDOWN_MS after the first.
C6_AlertAtThreshold ==
  \A T \in AlertThresholds : \A i \in DOMAIN feedLog :
    BadRun(i, T) =>
      /\ feedLog[i + T - 1].fired
      /\ feedLog[i + T - 1].after = 0
      /\ \A k \in i..(i + T - 2) : ~feedLog[k].fired
      /\ feedLog[i + T].fired <=>
           (T = 1 /\ feedLog[i + T].at - feedLog[i + T - 1].at > VOICE_COOLDOWN_MS)

C6_Witness ==
  \E i \in DOMAIN feedLog :
    /\ BadRun(i, DEFAULT_VOICE_ALERT_THRESHOLD)
    /\ feedLog[i + 1].fired
    /\ ~feedLog[i + 2].fired

\* C7: any two alerts spoken by the debouncer are more than VOICE_COOLDOWN_MS apart, also
\* when the session was paused and resumed between them.
C7_AlertsApartByCooldown ==
  \A i, j \in DOMAIN feedLog :
    (i < j /\ feedLog[i].fired /\ feedLog[j].fired) =>
      feedLog[j].at - feedLog[i].at > VOICE_COOLDOWN_MS

C7_Witness ==
  \E i, j \in DOMAIN feedLog :
    /\ i < j
    /\ feedLog[i].fired
    /\ feedLog[j].fired
    /\ \E k \in i..(j - 1) : feedLog[k + 1].before # feedLog[k].after

\* C8: from Work with elapsedSeconds = 0 and fixed durations, after exactly W ticks isOnBreak
\* is true and elapsedSeconds is W, and after exactly B more ticks isOnBreak is false and
\* elapsedSeconds is 0, where W and B are the work and break durations in seconds.
C8_PomodoroCycle ==
  LET W == workDurationMin * SECONDS_PER_MINUTE
      B == breakDurationMin * SECONDS_PER_MINUTE
  IN /\ pomodoroTicks = W => (isOnBreak /\ elapsedSeconds = W)
     /\ pomodoroTicks = W + B => (~isOnBreak /\ elapsedSeconds = 0)

C8_Witness ==
  /\ pomodoroTicks = (workDurationMin + breakDurationMin) * SECONDS_PER_MINUTE
  /\ event.op = "pomodoro"
  /\ event.spoke = getPomodoroBreakText(activeVoiceTheme)

\* C9: the samples of a history are rewarded at most once: when a close reaches the
\* summarizer, no sample of the history it summarizes has been rewarded before.
C9_SamplesRewardedOnce ==
  [][event'.op = "close" => rewardedSamples = 0]_vars

\* C10: closing a session whose history is empty produces no report, leaves totalCoins as it
\* was and adds no entry to the session log.
C10_EmptyCloseIsNoOp ==
  [][(event'.op \in {"close", "closeEmpty"} /\ history = <<>>) =>
       /\ UNCHANGED <<totalCoins, savedSessions, summaries, reportSummary, lastEarnedCoins,
                      showReport>>
       /\ ~isGeneratingReport']_vars

C10_Witness ==
  /\ event.op = "closeEmpty"
  /\ history = <<>>
  /\ ~showReport
  /\ totalCoins = 0

\* C11: for every non-empty history and interval the reward is the rounding of
\* averageScore * durationMinutes / 10, never negative, with durationMinutes the rounding
\* of totalDurationSeconds / 60 and at least 1; averageScore 80 over 25 minutes gives 200.
C11_RewardFormula ==
  calc # <<>> =>
    LET c == calc[1]
        seconds == c.summary.totalDurationSeconds
        product == c.summary.averageScore * c.durationMinutes
    IN /\ c.durationMinutes >= 1
       /\ (seconds >= 30 =>
             /\ 2 * seconds - SECONDS_PER_MINUTE < 2 * SECONDS_PER_MINUTE * c.durationMinutes
             /\ 2 * SECONDS_PER_MINUTE * c.durationMinutes <= 2 * seconds + SECONDS_PER_MINUTE)
       /\ (seconds < 30 => c.durationMinutes = 1)
       /\ c.earnedCoins >= 0
       /\ 2 * product - 10 < 20 * c.earnedCoins
       /\ 20 * c.earnedCoins <= 2 * product + 10
       /\ (c.summary.averageScore = 80 /\ c.durationMinutes = 25 => c.earnedCoins = 200)

\* The sum of the values of a histogram.
RECURSIVE SumOfValues(_, _)
SumOfValues(f, S) ==
  IF S = {} THEN 0
  ELSE LET x == CHOOSE y \in S : TRUE IN f[x] + SumOfValues(f, S \ {x})

\* C12: the values of postureStats of a summarized history sum to its number of samples.
C12_PostureStatsSumToLength ==
  calc # <<>> =>
    SumOfValues(calc[1].summary.postureStats, DOMAIN calc[1].summary.postureStats)
      = Len(calc[1].history)

C12_Witness ==
  /\ calc # <<>>
  /\ Len(calc[1].history) = 300
  /\ DOMAIN calc[1].summary.postureStats = PostureType
  /\ calc[1].summary.postureStats["UNKNOWN"] = 60

\* C13: for a non-empty history with integer scores in 0..100 the averageScore is an
\* integer in 0..100, the mean of the scores rounded to the nearest integer (a half up).
C13_AverageIsRoundedMean ==
  calc # <<>> =>
    LET n == Len(calc[1].history)
        total == TotalScore(calc[1].history)
        avg == calc[1].summary.averageScore
    IN /\ avg \in 0..100
       /\ 2 * total - n < 2 * avg * n
       /\ 2 * avg * n <= 2 * total + n

C13_Witness ==
  /\ calc # <<>>
  /\ Len(calc[1].history) = 2
  /\ TotalScore(calc[1].history) = 47
  /\ calc[1].summary.averageScore = 24

\* C14: a purchase request for an item that costs more than totalCoins is rejected: it
\* leaves totalCoins, purchasedItems and the store as they were.
C14_UnaffordablePurchaseRejected ==
  [][(event'.op = "purchase" /\ ShopPrice[event'.item] > totalCoins) =>
       UNCHANGED <<totalCoins, purchasedItems, storeCoins, storeSessions, storePurchased>>]_vars

C14_Witness ==
  /\ event.op = "purchase"
  /\ event.item = "dark"
  /\ totalCoins < ShopPrice["dark"]
  /\ "dark" \notin purchasedItems

\* C15: totalCoins is never negative, whatever the closes, purchases and loads.
C15_CoinsNeverNegative == totalCoins >= 0

C15_Witness ==
  /\ event.op = "purchase"
  /\ "energetic" \in purchasedItems
  /\ storeCoins # Absent
  /\ totalCoins < ShopPrice["energetic"]
  /\ savedSessions # <<>>

\* The session log the store holds, as the application reads it.
PersistedSessions == LoadedSessions(storeSessions)

\* The balance the store holds, as the application reads it.
PersistedCoins == LoadedCoins(storeSessions, storeCoins)

NewestFirst(log) == \A i \in 1..(Len(log) - 1) : log[i].createdAt >= log[i + 1].createdAt

\* C16: the persisted session log never holds more than SAVED_SESSIONS_MAX entries and is
\* ordered newest first; a session close prepends its entry and, at the cap, evicts the oldest.
C16_LogCappedNewestFirst ==
  /\ [](Len(PersistedSessions) <= SAVED_SESSIONS_MAX /\ NewestFirst(PersistedSessions))
  /\ [][event'.op = "report" =>
          /\ PersistedSessions' # <<>>
          /\ PersistedSessions'[1].createdAt = now
          /\ Tail(PersistedSessions') = Take(savedSessions, SAVED_SESSIONS_MAX - 1)]_vars

C16_Witness ==
  /\ event.op = "report"
  /\ Len(PersistedSessions) = SAVED_SESSIONS_MAX
  /\ PersistedSessions[SAVED_SESSIONS_MAX].id = 2
  /\ PersistedSessions[1].createdAt > PersistedSessions[2].createdAt

\* The ledger moved from (coins, log) to (coins2, log2) by one whole close, or not at all.
WholeClose(coins, log, coins2, log2) ==
  /\ log2 # <<>>
  /\ Tail(log2) = Take(log, SAVED_SESSIONS_MAX - 1)
  /\ coins2 = coins + log2[1].earnedCoins

AllOrNothing(coins, log, coins2, log2) ==
  \/ WholeClose(coins, log, coins2, log2)
  \/ (coins2 = coins /\ log2 = log)

\* C17: a close of a non-empty history is all-or-nothing on the ledger, in the component
\* and in the store: the balance grows by earnedCoins and the log gains the entry carrying
\* it, or neither changes, also when a store write fails.
C17_CloseIsAllOrNothing ==
  [][event'.op \in {"report", "reportFailed"} =>
       /\ AllOrNothing(totalCoins, savedSessions, totalCoins', savedSessions')
       /\ AllOrNothing(PersistedCoins, PersistedSessions, PersistedCoins', PersistedSessions')]_vars

\* C18: purchasedItems contains the free defaults in every reachable state, whatever the
\* store held at startup.
C18_FreeDefaultsUnlocked == FreeDefaults \subseteq purchasedItems

\* C19: a manual preview issues the narration call whatever the session activity, the
\* threshold and the cooldown state are, and leaves the bad-result counter and the instant
\* of the last alert as they were.
C19_PreviewSpeaksAndLeavesDebouncer ==
  [][event'.op = "preview" =>
       /\ event'.spoke \in VoicePreviews
       /\ UNCHANGED <<consecutiveBadCountRef, lastVoiceAlertTimeRef>>]_vars

C19_Witness ==
  /\ event.op = "preview"
  /\ event.spoke = "strict"
  /\ ~isMonitoring
  /\ consecutiveBadCountRef = 0
  /\ feedLog # <<>>
  /\ now - lastVoiceAlertTimeRef <= VOICE_COOLDOWN_MS

\* The pending timers set with the backoff delay of a quota or not-found rejection.
BackoffCount ==
  LET B == {t \in BagToSet(timers) : t.delay = BACKOFF_MS}
  IN BagCardinality([t \in B |-> timers[t]])

\* C20: after a quota or not-found rejection no analyze call is issued for BACKOFF_MS
\* while the session stays active, also when the interval or the threshold is changed
\* meanwhile. The BACKOFF_MS after the rejection are the lifetime of the timer set with
\* that delay: while it is pending and the session stays active, a step either is the
\* firing of that timer, or keeps it pending and issues no analyze call.
C20_BackoffHoldsCalls ==
  [][(BackoffCount > 0 /\ isMonitoring /\ isMonitoring') =>
       \/ event'.op = "tick" /\ BackoffCount' = BackoffCount - 1
       \/ /\ BackoffCount' >= BackoffCount
          /\ BagCardinality(inflight') <= BagCardinality(inflight)]_vars

\* C21: a rejection of the analyze call that is not a configuration error, settled while
\* the session is active, sets the diagnostic, leaves the session active and history and
\* latestResult as they were, and sets exactly one timer: with BACKOFF_MS for a quota or
\* not-found rejection, with the configured interval for any other.
C21_NonFatalFailureReschedules ==
  [][(event'.op = "failure" /\ isMonitoringRef) =>
       /\ error' # NULL
       /\ isMonitoring'
       /\ history' = history
       /\ latestResult' = latestResult
       /\ BagCardinality(timers') = BagCardinality(timers) + 1
       /\ event'.delays =
            <<IF "429" \in event'.failure \/ "404" \in event'.failure
                THEN BACKOFF_MS ELSE monitorIntervalMs>>]_vars

\* C22: an analyze call that resolves while the session is active appends the result,
\* stamped with the current instant, to history and makes it latestResult, clears the
\* diagnostic, feeds the debouncer once and sets exactly one timer with the configured
\* interval; latestResult is the last element of history whenever history is not empty.
C22_SuccessAppendsAndReschedules ==
  /\ [][(event'.op = "success" /\ isMonitoringRef) =>
          /\ Len(history') = Len(history) + 1
          /\ SubSeq(history', 1, Len(history)) = history
          /\ history'[Len(history')].timestamp = now
          /\ latestResult' = <<history'[Len(history')]>>
          /\ error' = NULL
          /\ Len(feedLog') = Len(feedLog) + 1
          /\ BagCardinality(timers') = BagCardinality(timers) + 1
          /\ event'.delays = <<monitorIntervalMs>>]_vars
  /\ [](history # <<>> => latestResult = <<history[Len(history)]>>)

\* C23: a tick that finds the capture source not ready while the session is active issues
\* no analyze call, leaves history, latestResult, the diagnostic and the debouncer state as
\* they were, and sets exactly one timer, with NOT_READY_RETRY_MS.
C23_NotReadyTickRetries ==
  [][(event'.op = "tick" /\ isMonitoringRef /\ ~CaptureReady(activeTab)) =>
       /\ inflight' = inflight
       /\ UNCHANGED <<history, latestResult, error, consecutiveBadCountRef,
                      lastVoiceAlertTimeRef>>
       /\ event'.delays = <<NOT_READY_RETRY_MS>>
       /\ BagCardinality(timers') = BagCardinality(timers)
       /\ \E t \in BagToSet(timers') : t.inRef /\ t.delay = NOT_READY_RETRY_MS]_vars

C23_Witness ==
  /\ event.op = "tick"
  /\ event.delays = <<NOT_READY_RETRY_MS>>
  /\ isMonitoring
  /\ activeTab = "settings"
  /\ history # <<>>
  /\ inflight = EmptyBag
  /\ BagCardinality(timers) = 1

\* C24: no analyze call is issued while the session is inactive: no step that ends with the
\* session inactive adds a call in flight, and a timer that fires while the session is
\* inactive only disappears: no call, no new timer, no other state changed.
C24_InactiveTickIsInert ==
  /\ [][~isMonitoring' => BagCardinality(inflight') <= BagCardinality(inflight)]_vars
  /\ [][(event'.op = "tick" /\ ~isMonitoring) =>
          /\ inflight' = inflight
          /\ timers' \sqsubseteq timers
          /\ BagCardinality(timers') = BagCardinality(timers) - 1
          /\ event'.delays = <<>>
          /\ UNCHANGED <<activeTab, isMonitoring, isMonitoringRef, monitorIntervalMs,
                         voiceAlertThreshold, timeoutRef, sampleVars, alertVars, now,
                         pomodoroVars, pomodoroSettings, reportVars, shopVars,
                         ledgerStore>>]_vars

C24_Witness ==
  /\ event.op = "tick"
  /\ ~isMonitoring
  /\ activeTab = "home"
  /\ timers = EmptyBag
  /\ inflight = EmptyBag

ProcessedBad ==
  /\ event'.op = "success"
  /\ isMonitoringRef
  /\ feedLog'[Len(feedLog')].bad

C28_NarrationBesideTheLoop ==
  /\ [][(event'.op = "success" /\ event'.spoke # NULL) =>
          /\ Narration(event'.spoke, event'.voice) \in narrations'
          /\ BagCardinality(timers') = BagCardinality(timers) + 1
          /\ \E t \in BagToSet(timers') : t.inRef]_vars
  /\ [][event'.op \in {"narrationFailed", "narrationEnded"} =>
          UNCHANGED <<isMonitoring, isMonitoringRef, error, history, latestResult,
                      loopVars>>]_vars

\* The narration of the second result failed after the third result was processed.
C28_Witness ==
  /\ event.op = "narrationFailed"
  /\ isMonitoring
  /\ error = NULL
  /\ Len(feedLog) = 3
  /\ feedLog[2].fired
  /\ ~feedLog[1].fired /\ ~feedLog[3].fired
  /\ Len(history) = 3
  /\ timers # EmptyBag

\* C29: when the debouncer fires, the narration call is issued with the feedback text of
\* the result and with the voice theme that is active at that moment, also when the theme
\* was changed after the session was started.
C29_AlertSpeaksInActiveVoice ==
  [][(event'.op = "success" /\ event'.spoke # NULL) =>
       /\ event'.spoke = latestResult'[1].feedback
       /\ event'.voice = activeVoiceTheme
       /\ Narration(latestResult'[1].feedback, activeVoiceTheme) \in narrations']_vars

\* C30 as stated: the counter and the instant of the last alert change only when the
\* debouncer processes a new result; every other operation leaves both as they were.
C30_DebouncerStateOnlyByResults ==
  [][<<consecutiveBadCountRef, lastVoiceAlertTimeRef>>' #
       <<consecutiveBadCountRef, lastVoiceAlertTimeRef>> => event'.op = "success"]_vars

\* C30, amended: the instant of the last alert changes only when the debouncer fires on a
\* new result; the counter changes only when the debouncer processes a new result or when
\* the session is deactivated, which sets it to 0.  Previews, pomodoro ticks, purchases,
\* setting changes and clearing the history leave both as they were.
C30_DebouncerStateByResultsAndStop ==
  /\ [][lastVoiceAlertTimeRef' # lastVoiceAlertTimeRef =>
          event'.op = "success" /\ event'.spoke # NULL]_vars
  /\ [][consecutiveBadCountRef' # consecutiveBadCountRef =>
          \/ event'.op = "success"
          \/ isMonitoring /\ ~isMonitoring' /\ consecutiveBadCountRef' = 0]_vars
  /\ [][event'.op \in {"preview", "pomodoro", "purchase", "interval", "threshold", "clear"}
          => UNCHANGED <<consecutiveBadCountRef, lastVoiceAlertTimeRef>>]_vars

\* A pause found the counter at 1 and left it at 0.
C30_Witness ==
  /\ event.op = "pause"
  /\ feedLog # <<>>
  /\ feedLog[Len(feedLog)].after = 1
  /\ consecutiveBadCountRef = 0
  /\ lastVoiceAlertTimeRef = 0

\* C31: a tick of the pomodoro interval that changes the phase hands exactly one text to the
\* narration client, with the voice style active at that tick: the work-end phrase of that
\* style when the tick goes from Work to Break, its break-end phrase when it goes from Break
\* to Work; the ten phrases (five styles, two edges) are distinct; and a tick that leaves the
\* phase as it was hands it nothing.
PomodoroPhrases ==
  {getPomodoroWorkText(v) : v \in VoiceThemes} \cup {getPomodoroBreakText(v) : v \in VoiceThemes}

C31_TransitionNarratesOnce ==
  [][event'.op = "pomodoro" =>
       /\ Cardinality(PomodoroPhrases) = 2 * Cardinality(VoiceThemes)
       /\ (~isOnBreak /\ isOnBreak') =>
             /\ event'.spoke = getPomodoroWorkText(activeVoiceTheme)
             /\ event'.voice = activeVoiceTheme
             /\ narrations' = narrations \cup {Narration(event'.spoke, activeVoiceTheme)}
       /\ (isOnBreak /\ ~isOnBreak') =>
             /\ event'.spoke = getPomodoroBreakText(activeVoiceTheme)
             /\ event'.voice = activeVoiceTheme
             /\ narrations' = narrations \cup {Narration(event'.spoke, activeVoiceTheme)}
       /\ (isOnBreak' = isOnBreak) =>
             /\ event'.spoke = NULL
             /\ narrations' = narrations]_vars

C31_Witness ==
  /\ event.op = "pomodoro"
  /\ ~isOnBreak
  /\ elapsedSeconds = 0
  /\ activeVoiceTheme = "strict"
  /\ Narration(getPomodoroWorkText("gentle"), "gentle") \in narrations
  /\ Narration(getPomodoroBreakText("strict"), "strict") \in narrations

\* C32 as stated: a reset request cancels the ticking, zeroes the count, returns to the work
\* phase, and leaves the session activity, the history and the debouncer as they were.
C32_ResetCancelsTicking ==
  [][event'.op = "reset" =>
       /\ ~pomodoroTimer'
       /\ elapsedSeconds' = 0
       /\ ~isOnBreak'
       /\ UNCHANGED <<isMonitoring, isMonitoringRef, history, latestResult, alertVars>>]_vars

\* C32 as the code has it: a reset request, in either phase, zeroes the count and returns to
\* the work phase; it leaves the session activity, the history and the debouncer as they
\* were, and it leaves the one-second interval as it was: that of an active session keeps
\* ticking, from zero.
C32_ResetRestartsCount ==
  [][event'.op = "reset" =>
       /\ pomodoroTimer' = pomodoroTimer
       /\ elapsedSeconds' = 0
       /\ ~isOnBreak'
       /\ UNCHANGED <<isMonitoring, isMonitoringRef, history, latestResult, alertVars>>]_vars

C32_Witness ==
  /\ event.op = "reset"
  /\ isMonitoring
  /\ pomodoroTimer
  /\ elapsedSeconds = 0
  /\ ~isOnBreak
  /\ Len(history) > 0
  /\ consecutiveBadCountRef > 0
  /\ Narration(getPomodoroWorkText(activeVoiceTheme), activeVoiceTheme) \in narrations
  /\ Narration(getPomodoroBreakText(activeVoiceTheme), activeVoiceTheme) \notin narrations

\* C33: the totalDurationSeconds of a summary is the number of samples of the history that
\* was closed times the interval of that close in seconds, whatever failed calls, ticks
\* without a frame and backoff delays the session went through.
C33_DurationFromSampleCount ==
  [][event'.op = "report" =>
       \E s \in BagToSet(summaries) :
         /\ summaries' = summaries (-) One(s)
         /\ reportSummary'[1].totalDurationSeconds * 1000 = Len(s.history) * s.intervalMs
         /\ savedSessions'[1].summary.totalDurationSeconds = reportSummary'[1].totalDurationSeconds]_vars

C33_Witness ==
  /\ event.op = "report"
  /\ error # NULL
  /\ Len(history) = MaxHistory
  /\ reportSummary[1].totalDurationSeconds = Len(history) * (monitorIntervalMs \div 1000)

\* C34: a summarize call that failed does not fail the close: the close ends with the fixed
\* substitute as aiComment, adds the earnedCoins of the summary to the balance, puts the
\* entry at the head of the log and writes both to the store, shows the report, and leaves
\* the diagnostic and the session activity as they were.
C34_FailedSummaryStillCloses ==
  [][(event'.op = "report" /\ reportSummary'[1].aiComment = generateSessionSummary("rejected")) =>
       \E s \in BagToSet(summaries) :
         LET summary == Summarize(s.history, s.intervalMs, generateSessionSummary("rejected"))
         IN /\ reportSummary' = <<summary>>
            /\ lastEarnedCoins' = <<EarnedCoins(summary)>>
            /\ totalCoins' = totalCoins + EarnedCoins(summary)
            /\ Len(savedSessions') = Len(savedSessions) + 1
            /\ savedSessions'[1].summary = summary
            /\ savedSessions'[1].earnedCoins = EarnedCoins(summary)
            /\ storeCoins' = Stored("number", totalCoins')
            /\ storeSessions' = Stored("array", savedSessions')
            /\ showReport' /\ ~isGeneratingReport'
            /\ UNCHANGED <<error, isMonitoring, isMonitoringRef>>]_vars

C34_Witness ==
  /\ event.op = "report"
  /\ reportSummary[1].aiComment = generateSessionSummary("rejected")
  /\ error # NULL
  /\ lastEarnedCoins[1] > 0
  /\ totalCoins = lastEarnedCoins[1]
  /\ Len(savedSessions) = 1

\* C35: a session starts with an empty history and no latest result: the step that starts
\* monitoring leaves both empty, so that the close of the session summarizes only samples
\* taken since that start.
C35_SessionStartsEmpty ==
  [][event'.op = "start" => (history' = <<>> /\ latestResult' = <<>>)]_vars

\* C36: while monitoring is on the history only grows at its end, by one result at a time:
\* every step taken in an active session leaves the history as it was or appends one result
\* to it; and the timestamps of the history never decrease along it.
C36_HistoryAppendOnly ==
  /\ [][isMonitoring =>
          \/ history' = history
          \/ /\ Len(history') = Len(history) + 1
             /\ SubSeq(history', 1, Len(history)) = history]_vars
  /\ [](\A i \in DOMAIN history : \A j \in DOMAIN history :
          i < j => history[i].timestamp <= history[j].timestamp)

C36_Witness ==
  /\ isMonitoring
  /\ event.op = "success"
  /\ Len(history) = MaxHistory
  /\ history[1].timestamp < history[Len(history)].timestamp
  /\ Len(feedLog) > Len(history)

\* C37: the load validates each key of the store on its own: right after a page load the
\* balance is the stored amount when that is a number that is not negative and 0 otherwise,
\* the log is the stored array and empty otherwise, the unlocked items are the stored array
\* with the free defaults and the free defaults alone otherwise, and the voice is the stored
\* identifier when the catalog has it and the default one otherwise, each whatever the
\* other keys hold.
C37_EachKeyValidatedAlone ==
  event.op \in {"init", "reload"} =>
    /\ totalCoins = IF storeCoins # Absent /\ storeCoins[1].kind = "number" /\ storeCoins[1].val >= 0
                      THEN storeCoins[1].val ELSE 0
    /\ savedSessions = IF storeSessions # Absent /\ storeSessions[1].kind = "array"
                         THEN storeSessions[1].val ELSE <<>>
    /\ purchasedItems = IF storePurchased # Absent /\ storePurchased[1].kind = "array"
                          THEN storePurchased[1].val \cup FreeDefaults ELSE FreeDefaults
    /\ activeVoiceTheme = IF storeVoice # Absent /\ storeVoice[1].kind = "text" /\
                               storeVoice[1].val \in VoiceThemes
                            THEN storeVoice[1].val ELSE "gentle"

\* C38: the balance changes only by earning and spending.  A close that ends adds the
\* earnedCoins of the entry it puts in the log; a purchase request for a locked item the
\* balance covers takes its price off once and unlocks it; a purchase request for an item
\* already unlocked changes neither the balance, the unlocked items nor the store; a page
\* load sets the balance to the loaded one; and no other step changes the balance.  (By
\* induction the balance is the loaded one plus the earnings minus the prices paid.)
C38_BalanceByEarnAndSpend ==
  [][/\ event'.op = "report" =>
          /\ totalCoins' = totalCoins + savedSessions'[1].earnedCoins
          /\ Len(savedSessions') = IF Len(savedSessions) < SAVED_SESSIONS_MAX
                                     THEN Len(savedSessions) + 1 ELSE SAVED_SESSIONS_MAX
     /\ event'.op = "purchase" =>
          IF event'.item \in purchasedItems
            THEN UNCHANGED <<totalCoins, purchasedItems, storeCoins, storePurchased>>
          ELSE IF totalCoins >= ShopPrice[event'.item]
            THEN /\ totalCoins' = totalCoins - ShopPrice[event'.item]
                 /\ purchasedItems' = purchasedItems \cup {event'.item}
          ELSE UNCHANGED <<totalCoins, purchasedItems>>
     /\ event'.op \in {"reload", "reportFailed"} =>
          totalCoins' = LoadedCoins(storeSessions', storeCoins')
     /\ event'.op \notin {"report", "purchase", "reload", "reportFailed"} =>
          totalCoins' = totalCoins]_vars

C38_Witness ==
  /\ event.op = "purchase"
  /\ event.item = "energetic"
  /\ "energetic" \in purchasedItems
  /\ lastEarnedCoins # <<>>
  /\ lastEarnedCoins[1] > 0
  /\ totalCoins = 250 + lastEarnedCoins[1] - ShopPrice["energetic"]
  /\ storeCoins = Stored("number", totalCoins)

\* C39 as stated: in every state of an active session the phase and the count agree: in
\* Work the count is below workSeconds, in Break it is at least workSeconds and below
\* workSeconds + breakSeconds.
C39_PhaseAgreesWithCounter ==
  LET workSeconds == workDurationMin * SECONDS_PER_MINUTE
      breakSeconds == breakDurationMin * SECONDS_PER_MINUTE
  IN isMonitoring =>
       /\ ~isOnBreak => elapsedSeconds < workSeconds
       /\ isOnBreak => (workSeconds <= elapsedSeconds /\ elapsedSeconds < workSeconds + breakSeconds)

\* C39 as the code has it: the phase and the count agree when a session starts, and every
\* step other than a change of the work or break duration keeps them agreeing: ticks,
\* resets, pauses and new starts; a change of a duration is applied to the running count as
\* it is, and may leave Work with a count at or above workSeconds or Break with a count
\* outside its range.  Each tick that does not go from Break to Work adds exactly 1 to the
\* count, and the one that does sets it to 0.
C39_AgreementKeptByTicksAndResets ==
  /\ [][(C39_PhaseAgreesWithCounter /\ event'.op # "durations") =>
          C39_PhaseAgreesWithCounter']_vars
  /\ [][event'.op = "start" => C39_PhaseAgreesWithCounter']_vars
  /\ [][event'.op = "pomodoro" =>
          IF isOnBreak /\ ~isOnBreak' THEN elapsedSeconds' = 0
          ELSE elapsedSeconds' = elapsedSeconds + 1]_vars

C39_Witness ==
  /\ event.op = "pomodoro"
  /\ isMonitoring
  /\ isOnBreak
  /\ workDurationMin # DEFAULT_POMODORO_WORK_MIN
  /\ breakDurationMin # DEFAULT_POMODORO_BREAK_MIN
  /\ elapsedSeconds = workDurationMin * SECONDS_PER_MINUTE
  /\ activeTab = "settings"

\* C40: every failure of an analyze call in an active session gets exactly one reaction: the
\* session is stopped and no timer is set, or one timer is set with the backoff delay or
\* with a selectable interval; and a failure that matches the configuration pattern stops
\* the session and sets no timer, also when it matches the quota or the not-found pattern.
C40_FatalErrorsWin ==
  [][(event'.op \in {"failure", "fatal"} /\ isMonitoringRef) =>
       /\ \/ ~isMonitoring' /\ event'.delays = <<>>
          \/ isMonitoring' /\ Len(event'.delays) = 1 /\
               event'.delays[1] \in {BACKOFF_MS} \cup MonitorIntervals
       /\ "API Key" \in event'.failure => (~isMonitoring' /\ event'.delays = <<>>)]_vars

====
